---- MODULE Spec2Model ----
(***************************************************************************)
(* The prepare -> confirm -> execute workflow of the Solana agent tools:   *)
(* sendSolTransaction / confirmTransaction, swapTokens / confirmSwap and   *)
(* prepareCrossChainSwap / confirmCrossChainSwap.                          *)
(*                                                                         *)
(* Each tool's execute() is an async function: it runs without             *)
(* interruption up to its next await, so an action of the model is one     *)
(* such run (the start of a call up to its first await or return, or the   *)
(* continuation after an await up to the next one).  Several calls can be  *)
(* in flight; they interleave only at awaits.                              *)
(*                                                                         *)
(* Amounts and balances are in micro-SOL (or millionths of a token), so    *)
(* the code's float comparisons become exact integer comparisons.          *)
(* Messages are sequences of lower-case tokens (the code lower-cases and   *)
(* trims, and its patterns are case-insensitive and split at white space). *)
(***************************************************************************)
EXTENDS Integers, Sequences, FiniteSets, TLC

----------------------------------------------------------------------------
(* Bounds of the model *)

\* prepare calls that succeed in one behaviour (each pending action is
\* numbered by the prepare that created it)
MaxPrepares == 2

----------------------------------------------------------------------------
(* Program constants *)

MicroPerSol == 1000000
\* `amount > 1` in sendSolTransaction and confirmTransaction
TransferCeiling == 1000000
\* `parsed.amount > 10` in swapTokens
SwapCeiling == 10000000
\* `parseFloat(parsed.amount) > 100` in prepareCrossChainSwap
CrossChainCeiling == 100000000
\* estimatedFee = 0.000005
TransferFee == 5
\* estimatedFees = requiredFees = 0.06
CrossChainFees == 60000

----------------------------------------------------------------------------
(* Messages *)

W(s) == [k |-> "w", s |-> s]
N(n) == [k |-> "n", n |-> n]

IsWord(t, s) == t.k = "w" /\ t.s = s
IsNum(t) == t.k = "n"

\* words that match [1-9A-HJ-NP-Za-km-z]{32,44}
Base58Words == {"addrGood", "addrOffKey"}
\* those of them new PublicKey(..) accepts
ValidPubkeys == {"addrGood"}

IsBase58(t) == t.k = "w" /\ t.s \in Base58Words

isValidSolanaAddress(address) == address \in ValidPubkeys

\* words that match [a-zA-Z0-9]+ and [a-zA-Z]+: every word of the vocabulary
\* but "cross-chain" (amounts are written with a decimal point and match neither)
IsAlnum(t) == t.k = "w" /\ t.s # "cross-chain"
IsAlpha(t) == t.k = "w" /\ t.s # "cross-chain"

NULL == [null |-> TRUE]

\* the least element of a set of positions, 0 if it is empty (a regular
\* expression reports its leftmost match)
First(S) == IF S = {} THEN 0 ELSE CHOOSE i \in S : \A j \in S : i <= j

\* <verb> <amount> sol to <address> at position i of input
TransferAt(input, verb, i) ==
    /\ i + 4 <= Len(input)
    /\ IsWord(input[i], verb)
    /\ IsNum(input[i + 1])
    /\ IsWord(input[i + 2], "sol")
    /\ IsWord(input[i + 3], "to")
    /\ IsBase58(input[i + 4])

TransferMatch(input, verb) ==
    First({i \in 1..Len(input) : TransferAt(input, verb, i)})

\* one pattern of parseTransactionCommand: the parsed command, or NULL
TransferPattern(input, verb) ==
    LET i == TransferMatch(input, verb)
    IN IF i = 0 THEN NULL
       ELSE IF input[i + 1].n > 0
            THEN [amount |-> input[i + 1].n, recipient |-> input[i + 4].s]
            ELSE NULL

parseTransactionCommand(input) ==
    IF TransferPattern(input, "send") # NULL THEN TransferPattern(input, "send")
    ELSE IF TransferPattern(input, "transfer") # NULL THEN TransferPattern(input, "transfer")
    ELSE TransferPattern(input, "pay")

----------------------------------------------------------------------------
(* confirmTransaction: parseConfirmationCommand *)

SIMPLE_CONFIRMATION == [amount |-> -1, recipient |-> "SIMPLE_CONFIRMATION"]
SIMPLE_CANCELLATION == [amount |-> -2, recipient |-> "SIMPLE_CANCELLATION"]

SimpleConfirmPhrases ==
    { <<W("confirm"), W("transaction")>>, <<W("yes"), W("transaction")>>,
      <<W("confirm"), W("send")>>, <<W("yes")>>, <<W("y")>>, <<W("confirm")>> }

SimpleCancelPhrases ==
    { <<W("cancel"), W("transaction")>>, <<W("no"), W("transaction")>>,
      <<W("cancel"), W("send")>>, <<W("no")>>, <<W("n")>> }

\* confirm send <amount> sol to <address> at position i of input
FullConfirmAt(input, i) ==
    /\ i + 5 <= Len(input)
    /\ IsWord(input[i], "confirm")
    /\ TransferAt(input, "send", i + 1)

FullConfirmMatch(input) ==
    First({i \in 1..Len(input) : FullConfirmAt(input, i)})

parseConfirmationCommand(input) ==
    IF input \in SimpleConfirmPhrases THEN SIMPLE_CONFIRMATION
    ELSE IF input \in SimpleCancelPhrases THEN SIMPLE_CANCELLATION
    ELSE LET i == FullConfirmMatch(input)
         IN IF i # 0 /\ input[i + 2].n > 0
            THEN [amount |-> input[i + 2].n, recipient |-> input[i + 5].s]
            ELSE NULL

----------------------------------------------------------------------------
(* swapTokens: parseSwapCommand *)

BuyAt(input, i) ==
    /\ i + 4 <= Len(input)
    /\ IsWord(input[i], "buy")
    /\ IsNum(input[i + 1])
    /\ IsWord(input[i + 2], "sol")
    /\ \/ IsWord(input[i + 3], "of") /\ IsAlnum(input[i + 4])
       \/ /\ i + 5 <= Len(input)
          /\ IsWord(input[i + 3], "worth")
          /\ IsWord(input[i + 4], "of")
          /\ IsAlnum(input[i + 5])

SellAt(input, i) ==
    /\ i + 2 <= Len(input)
    /\ IsWord(input[i], "sell")
    /\ IsNum(input[i + 1])
    /\ IsAlnum(input[i + 2])

ConvertAt(input, i) ==
    /\ i + 4 <= Len(input)
    /\ IsWord(input[i], "convert") \/ IsWord(input[i], "swap")
    /\ IsNum(input[i + 1])
    /\ IsAlnum(input[i + 2])
    /\ IsWord(input[i + 3], "to") \/ IsWord(input[i + 3], "for")
    /\ IsAlnum(input[i + 4])

parseSwapCommand(input) ==
    LET b == First({i \in 1..Len(input) : BuyAt(input, i)})
        s == First({i \in 1..Len(input) : SellAt(input, i)})
        c == First({i \in 1..Len(input) : ConvertAt(input, i)})
    IN IF b # 0
       THEN [type |-> "buy", amount |-> input[b + 1].n, fromToken |-> "sol",
             toToken |-> IF IsWord(input[b + 3], "of") THEN input[b + 4].s
                         ELSE input[b + 5].s]
       ELSE IF s # 0
       THEN [type |-> "sell", amount |-> input[s + 1].n,
             fromToken |-> input[s + 2].s, toToken |-> "sol"]
       ELSE IF c # 0
       THEN [type |-> "convert", amount |-> input[c + 1].n,
             fromToken |-> input[c + 2].s, toToken |-> input[c + 4].s]
       ELSE NULL

----------------------------------------------------------------------------
(* prepareCrossChainSwap: parseCrossChainSwapCommand *)

\* <verb> <amount> <token> from <chain> to <chain>
BridgeAt(input, verb, i) ==
    /\ i + 6 <= Len(input)
    /\ IsWord(input[i], verb)
    /\ IsNum(input[i + 1])
    /\ IsAlnum(input[i + 2])
    /\ IsWord(input[i + 3], "from")
    /\ IsAlpha(input[i + 4])
    /\ IsWord(input[i + 5], "to")
    /\ IsAlpha(input[i + 6])

\* swap <amount> <token> from <chain> to <token> on <chain>
CrossSwapAt(input, i) ==
    /\ i + 8 <= Len(input)
    /\ IsWord(input[i], "swap")
    /\ IsNum(input[i + 1])
    /\ IsAlnum(input[i + 2])
    /\ IsWord(input[i + 3], "from")
    /\ IsAlpha(input[i + 4])
    /\ IsWord(input[i + 5], "to")
    /\ IsAlnum(input[i + 6])
    /\ IsWord(input[i + 7], "on")
    /\ IsAlpha(input[i + 8])

SameToken(input, i) ==
    [amount |-> input[i + 1].n, fromToken |-> input[i + 2].s,
     fromChain |-> input[i + 4].s, toToken |-> input[i + 2].s,
     toChain |-> input[i + 6].s]

parseCrossChainSwapCommand(input) ==
    LET b == First({i \in 1..Len(input) : BridgeAt(input, "bridge", i)})
        s == First({i \in 1..Len(input) : CrossSwapAt(input, i)})
        t == First({i \in 1..Len(input) : BridgeAt(input, "transfer", i)})
    IN IF b # 0 THEN SameToken(input, b)
       ELSE IF s # 0
       THEN [amount |-> input[s + 1].n, fromToken |-> input[s + 2].s,
             fromChain |-> input[s + 4].s, toToken |-> input[s + 6].s,
             toChain |-> input[s + 8].s]
       ELSE IF t # 0 THEN SameToken(input, t)
       ELSE NULL

SUPPORTED_CHAINS ==
    {"solana", "ethereum", "bsc", "polygon", "avalanche", "arbitrum",
     "optimism", "base"}

----------------------------------------------------------------------------
(* confirmSwap and confirmCrossChainSwap: parseConfirmationResponse *)

\* the search strings of the two parsers that occur inside a word
Substrings(word) ==
    CASE word = "crosschain" -> {"crosschain", "cross", "chain"}
      [] word = "cross-chain" -> {"cross-chain", "cross", "chain"}
      [] word = "not" -> {"not", "no"}
      [] word = "unconfirmed" -> {"unconfirmed", "confirm"}
      [] OTHER -> {word}

\* String.prototype.includes, for a search string without white space
includes(input, needle) ==
    \E i \in 1..Len(input) : input[i].k = "w" /\ needle \in Substrings(input[i].s)

Phrase2(input, a, b) == input = <<W(a), W(b)>>
Phrase3(input, a, b, c) == input = <<W(a), W(b), W(c)>>

\* a parser that takes the direction keyword alone: DirectionAndSubject must
\* fail with it
parseSwapConfirmationLoose(input) ==
    IF includes(input, "confirm") \/ includes(input, "yes") THEN "confirm"
    ELSE IF includes(input, "cancel") \/ includes(input, "no") THEN "cancel"
    ELSE "invalid"

parseSwapConfirmation(input) ==
    IF \/ Phrase2(input, "confirm", "swap")
       \/ Phrase2(input, "yes", "swap")
       \/ includes(input, "confirm") /\ includes(input, "swap")
    THEN "confirm"
    ELSE IF \/ Phrase2(input, "cancel", "swap")
            \/ Phrase2(input, "no", "swap")
            \/ includes(input, "cancel") /\ includes(input, "swap")
    THEN "cancel"
    ELSE "invalid"

parseCrossChainConfirmation(input) ==
    IF \/ Phrase3(input, "confirm", "cross-chain", "swap")
       \/ Phrase3(input, "confirm", "crosschain", "swap")
       \/ input = <<W("confirm"), W("cross"), W("chain"), W("swap")>>
       \/ Phrase3(input, "yes", "cross-chain", "swap")
       \/ Phrase3(input, "yes", "crosschain", "swap")
       \/ Phrase2(input, "confirm", "swap")
       \/ includes(input, "confirm") /\ includes(input, "cross") /\ includes(input, "chain")
       \/ includes(input, "confirm") /\ includes(input, "crosschain")
       \/ includes(input, "yes") /\ includes(input, "cross") /\ includes(input, "chain")
    THEN "confirm"
    ELSE IF \/ Phrase3(input, "cancel", "cross-chain", "swap")
            \/ Phrase3(input, "cancel", "crosschain", "swap")
            \/ input = <<W("cancel"), W("cross"), W("chain"), W("swap")>>
            \/ Phrase3(input, "no", "cross-chain", "swap")
            \/ Phrase3(input, "no", "crosschain", "swap")
            \/ Phrase2(input, "cancel", "swap")
            \/ includes(input, "cancel") /\ includes(input, "cross") /\ includes(input, "chain")
            \/ includes(input, "cancel") /\ includes(input, "crosschain")
            \/ includes(input, "no") /\ includes(input, "cross") /\ includes(input, "chain")
    THEN "cancel"
    ELSE "invalid"

----------------------------------------------------------------------------
(* State *)

\* chat sessions that talk to the agent; the tools take no owner argument
Owners == {"u1", "u2"}

\* tool calls that can be in flight together
Procs == {1, 2}

VARIABLES
    pendingTransaction,     \* confirmTransaction.ts: let pendingTransaction
    pendingSwap,            \* swapTokens.ts: let pendingSwap
    pendingCrossChainSwap,  \* prepareCrossChainSwap.ts: let pendingCrossChainSwap
    calls,                  \* the calls in flight: position and local variables
    last,                   \* the call that returned last, with what it returned
    balance,                \* SOL balance of the configured wallet, micro-SOL
    walletConfigured,       \* WALLET_PRIVATE_KEY is set and decodes
    attempts,               \* history: executions started, per pending action
    cancelled,              \* history: pending actions a cancel has cleared
    lastPrepared,           \* history: number of the latest successful prepare
    heard,                  \* a message given to a confirmation parser, and its verdict
    jupiterApiFailures,     \* getWalletPortfolio.ts: let jupiterApiFailures
    lastJupiterFailureTime, \* getWalletPortfolio.ts: let lastJupiterFailureTime
    now,                    \* Date.now(), in ms since the module was loaded
    validations,            \* the calls of validateTokenPrice in flight
    validated,              \* the call of validateTokenPrice that returned last
    openedAt,               \* history: when the failure count last reached MAX_FAILURES
    cachedTokens,           \* jupiterTokens.ts: let cachedTokens
    cacheTimestamp,         \* jupiterTokens.ts: let cacheTimestamp
    fetchedAt,              \* history: Date.now() when the answer with cachedTokens arrived
    fetches,                \* the calls of getJupiterTokens and validateJupiterLiquidity in flight
    fetched,                \* the call of one of the two that returned last
    wallets,                \* schema.sql: the rows of table wallets, by id
    dbTransaction,          \* the transaction of the database connection
    walletCalls             \* the calls of the wallet service in flight

\* the state of the prepare / confirm tools
workflowVars ==
    <<pendingTransaction, pendingSwap, pendingCrossChainSwap, calls, last,
      balance, walletConfigured, attempts, cancelled, lastPrepared>>

\* the state of the parsers' check
parserVars == <<heard>>

\* the state of the circuit breaker of the Jupiter API
breakerVars ==
    <<jupiterApiFailures, lastJupiterFailureTime, now, validations, validated,
      openedAt>>

\* the state of the Jupiter token list and of its users
helperVars == <<cachedTokens, cacheTimestamp, fetchedAt, fetches, fetched>>

\* the state of the wallet service and of its table
walletVars == <<wallets, dbTransaction, walletCalls>>

vars == <<workflowVars, parserVars, breakerVars, helperVars, walletVars>>

\* what the tools leave alone, what the parsers' check leaves alone, what
\* the price validation leaves alone
besidesWorkflow == <<parserVars, breakerVars, helperVars, walletVars>>
besidesParser == <<workflowVars, breakerVars, helperVars, walletVars>>
besidesBreaker == <<workflowVars, parserVars, helperVars, walletVars>>
besidesHelpers == <<workflowVars, parserVars, breakerVars, walletVars>>
besidesWallets == <<workflowVars, parserVars, breakerVars, helperVars>>

\* ids a wallet can get (crypto.randomUUID())
MaxWallets == 2

WalletIds == 1..MaxWallets

\* names given to wallets: the default of createWallet.  A user gets a
\* second wallet of this name when two calls are in flight together.
WalletNames == {"Main Wallet"}

\* No row with this id.  Of a row: user_id, wallet_name, is_primary, and as
\* history asPrimary, the is_primary it was inserted with.
NoWallet ==
    [user_id |-> "none", wallet_name |-> "none", is_primary |-> FALSE,
     asPrimary |-> FALSE]

\* no transaction is open on the connection; of an open one, the rows as
\* they were at BEGIN
NoTransaction == [open |-> FALSE, rows |-> [w \in WalletIds |-> NoWallet]]

\* no call of the wallet service in this slot; of a call: where it is, its
\* arguments userId, walletName and walletId, its local isPrimary
NoWalletCall ==
    [op |-> "none", pc |-> "idle", userId |-> "none", walletName |-> "none",
     walletId |-> 0, isPrimary |-> FALSE]

\* A call of validateTokenPrice: where it is, its loop variable, its mint.
\* History fields, all as the call started: reached (the failure count had
\* reached MAX_FAILURES), open (and the last recorded failure was less than
\* CIRCUIT_BREAKER_TIMEOUT ago), elapsed (the count had reached MAX_FAILURES
\* and it did so CIRCUIT_BREAKER_TIMEOUT ago or more), count (the failure
\* count after the look at the breaker); requests (requests sent so far).
\* wait is the delay given to setTimeout before the retry, 0 before any.
NoValidation ==
    [pc |-> "idle", attempt |-> 0, mint |-> "none", reached |-> FALSE,
     open |-> FALSE, elapsed |-> FALSE, count |-> 0, requests |-> 0,
     wait |-> 0]

\* what is kept of a call of validateTokenPrice that has returned; failures
\* is the failure count as it returned
NotValidated ==
    [mint |-> "none", outcome |-> "none", reached |-> FALSE, open |-> FALSE,
     elapsed |-> FALSE, count |-> 0, requests |-> 0, failures |-> 0,
     isValid |-> FALSE, validatedPrice |-> "none"]

\* A call of getJupiterTokens or validateJupiterLiquidity: the function,
\* where it is, its loop variable, `now` as the call read it, the requests
\* sent so far, the delay given to setTimeout before the retry, and as
\* history `sent`, Date.now() when the request in flight was sent
NoFetch ==
    [helper |-> "none", pc |-> "idle", attempt |-> 0, now |-> 0,
     requests |-> 0, wait |-> 0, sent |-> 0]

\* what is kept of such a call that has returned: the value is the list
\* returned, or isValid
NotFetched ==
    [helper |-> "none", outcome |-> "none", value |-> "none", requests |-> 0]

NotHeard == [tool |-> "none", message |-> <<>>, verdict |-> "none"]

\* balances around the thresholds of the checks:
\* below the cross-chain fees, one short of 0.4 SOL + fee, exactly 1 SOL + fee
Balances == {50000, 400004, 1000005}

\* A call: the tool, where it is, what it returned, who called, its local
\* variables (req: the parsed command or the pending action it works on).
\* History fields: had (number of the pending action of the tool's kind when
\* the call started, 0 for none), short (the balance the prepare met was below
\* amount + fee), quoted (the call asked the quote provider), external (the
\* call asked a service outside the process: the chain, a token search, a
\* quote provider, an executor), lookupFailed (getBalance threw in the
\* prepare), made (number of the pending action the call stored, 0 for none).
NoCall ==
    [tool |-> "none", pc |-> "idle", outcome |-> "none", caller |-> "none",
     req |-> NULL, had |-> 0, short |-> FALSE, quoted |-> FALSE,
     external |-> FALSE, lookupFailed |-> FALSE, made |-> 0,
     error |-> <<>>, message |-> <<>>]

\* the amount of a parsed command or of a pending action, -1 for none
AmountOf(req) ==
    IF req = NULL THEN -1
    ELSE IF "inputAmount" \in DOMAIN req THEN req.inputAmount
    ELSE req.amount

\* what is kept of a call that has returned
Summary(c) ==
    [tool |-> c.tool, outcome |-> c.outcome,
     amount |-> AmountOf(c.req),
     had |-> c.had, short |-> c.short, quoted |-> c.quoted,
     external |-> c.external, lookupFailed |-> c.lookupFailed, made |-> c.made,
     error |-> c.error, message |-> c.message]

Init ==
    /\ pendingTransaction = NULL
    /\ pendingSwap = NULL
    /\ pendingCrossChainSwap = NULL
    /\ calls = [p \in Procs |-> NoCall]
    /\ last = Summary(NoCall)
    /\ balance \in Balances
    /\ walletConfigured \in BOOLEAN
    /\ attempts = [i \in 1..MaxPrepares |-> 0]
    /\ cancelled = {}
    /\ heard = NotHeard
    /\ lastPrepared = 0
    /\ jupiterApiFailures = 0
    /\ lastJupiterFailureTime = 0
    /\ now = 0
    /\ validations = [p \in Procs |-> NoValidation]
    /\ validated = NotValidated
    /\ openedAt = 0
    /\ cachedTokens = "empty"
    /\ cacheTimestamp = 0
    /\ fetchedAt = 0
    /\ fetches = [p \in Procs |-> NoFetch]
    /\ fetched = NotFetched
    /\ wallets = [w \in WalletIds |-> NoWallet]
    /\ dbTransaction = NoTransaction
    /\ walletCalls = [p \in Procs |-> NoWalletCall]

\* the slot a new call takes: the lowest one with no call in flight
Free(p) ==
    /\ calls[p] = NoCall
    /\ \A q \in Procs : q < p => calls[q] # NoCall

PrepareTools == {"sendSolTransaction", "swapTokens", "prepareCrossChainSwap"}

\* a prepare can start while the numbers for pending actions last
CanPrepare ==
    lastPrepared + Cardinality({q \in Procs : calls[q].tool \in PrepareTools})
        < MaxPrepares

IdOf(pending) == IF pending = NULL THEN 0 ELSE pending.id

\* a call of `tool` by `caller`, started now
Begin(tool, caller, pending) ==
    [tool |-> tool, pc |-> "start", outcome |-> "none", caller |-> caller,
     req |-> NULL, had |-> IdOf(pending), short |-> FALSE, quoted |-> FALSE,
     external |-> FALSE, lookupFailed |-> FALSE, made |-> 0,
     error |-> <<>>, message |-> <<>>]

\* the call in slot p goes on as c: it has returned (c.pc = "done") or it
\* waits at an await
Step(p, c) ==
    IF c.pc = "done"
    THEN calls' = [calls EXCEPT ![p] = NoCall] /\ last' = Summary(c)
    ELSE calls' = [calls EXCEPT ![p] = c] /\ UNCHANGED last

\* the call returns `outcome`
Return(c, outcome) == [c EXCEPT !.pc = "done", !.outcome = outcome]

\* the call suspends at an await: of the chain, of a quote provider, of an
\* executor
Await(c, pc) == [c EXCEPT !.pc = pc, !.external = TRUE]

getWalletFromPrivateKey == walletConfigured

\* error.message of what the chain or a provider throws during an execution,
\* word by word; <<>> is the empty message
ExecutionErrors ==
    { <<"insufficient", "funds">>, <<"custom", "program", "error">>, <<>> }

\* one of them, for where the text of the error makes no difference
OneError == { <<"custom", "program", "error">> }

\* error.message.includes(words)
messageIncludes(message, words) ==
    \E i \in 1..(Len(message) - Len(words) + 1) :
        SubSeq(message, i, i + Len(words) - 1) = words

\* catch of confirmTransaction.execute: errorMessage
TransferErrorMessage(error) ==
    <<"Transaction failed: ">> \o
    (IF messageIncludes(error, <<"insufficient", "funds">>)
     THEN <<"Insufficient funds for transaction and fees.">>
     ELSE IF messageIncludes(error, <<"blockhash", "not", "found">>)
     THEN <<"Network congestion. Please try again in a moment.">>
     ELSE IF messageIncludes(error, <<"invalid">>)
     THEN <<"Invalid transaction parameters.">>
     ELSE IF error # <<>> THEN error
     ELSE <<"Unknown error occurred.">>)

\* catch of confirmSwap.execute: errorMessage
SwapErrorMessage(error) ==
    <<"Token swap failed: ">> \o
    (IF messageIncludes(error, <<"insufficient", "funds">>)
     THEN <<"Insufficient funds for swap and transaction fees.">>
     ELSE IF messageIncludes(error, <<"slippage">>)
     THEN <<"Price moved beyond slippage tolerance. Try increasing slippage or try again.">>
     ELSE IF messageIncludes(error, <<"liquidity">>)
     THEN <<"Insufficient liquidity for this swap amount.">>
     ELSE IF messageIncludes(error, <<"timeout">>)
     THEN <<"Transaction timed out. Network may be congested, please try again.">>
     ELSE IF messageIncludes(error, <<"blockhash">>)
     THEN <<"Network congestion. Please try again in a moment.">>
     ELSE IF error # <<>> THEN error
     ELSE <<"Unknown error occurred during swap execution.">>)

\* catch of confirmCrossChainSwap.execute: errorMessage
CrossChainErrorMessage(error) ==
    <<"Cross-chain swap failed: ">> \o
    (IF messageIncludes(error, <<"insufficient", "funds">>)
     THEN <<"Insufficient funds for swap and transaction fees. Please check your wallet balance and ensure you have enough SOL for fees.">>
     ELSE IF messageIncludes(error, <<"slippage">>)
     THEN <<"Price moved beyond slippage tolerance. Try increasing slippage or try again.">>
     ELSE IF messageIncludes(error, <<"liquidity">>)
     THEN <<"Insufficient liquidity for this cross-chain swap.">>
     ELSE IF messageIncludes(error, <<"timeout">>)
     THEN <<"Transaction timed out. Network may be congested, please try again.">>
     ELSE IF messageIncludes(error, <<"allowance">>)
     THEN <<"Insufficient token allowance. Please approve the token for spending first.">>
     ELSE IF messageIncludes(error, <<"network">>)
     THEN <<"Network error. Please check your connection and try again.">>
     ELSE IF messageIncludes(error, <<"Failed", "to", "send", "transaction">>)
     THEN <<"Transaction failed to broadcast. This is often due to Jupiter routing issues, insufficient liquidity, or slippage tolerance. Try a smaller amount or wait a few minutes and retry.">>
     ELSE IF error # <<>> THEN error
     ELSE <<"Unknown error occurred during cross-chain swap execution.">>)

\* the catch of a confirm tool: the call returns {success: false, message:
\* errorMessage}
Thrown(c, error) ==
    Return([c EXCEPT !.error = error,
                     !.message = CASE c.tool = "confirmTransaction" ->
                                        TransferErrorMessage(error)
                                   [] c.tool = "confirmSwap" ->
                                        SwapErrorMessage(error)
                                   [] c.tool = "confirmCrossChainSwap" ->
                                        CrossChainErrorMessage(error)],
           "failed")

\* a prepare that searches before it rejects: FailsFast must fail with it
InvalidCommandSearched(c) == Return([c EXCEPT !.external = TRUE], "invalid")

\* `if (!parsed) return {success: false, ...}` of the three prepares
InvalidCommand(c) == Return(c, "invalid")

\* a cancel clears the slot: the pending action in it, if any, is cancelled
Cancel(pending) ==
    IF pending = NULL THEN cancelled ELSE cancelled \cup {pending.id}

\* the executor is called for the pending action a call holds
Attempt(pending) ==
    IF pending.id = 0 THEN attempts
    ELSE [attempts EXCEPT ![pending.id] = @ + 1]

----------------------------------------------------------------------------
(* sendSolTransaction *)

TransferAmounts == {0, 400000, 1000000, 2000000}

TransferCommands ==
    { <<W("send"), N(a), W("sol"), W("to"), W(r)>> :
        a \in TransferAmounts, r \in Base58Words }
    \cup { <<W("hello")>>,
           <<W("pay"), N(400000), W("sol"), W("to"), W("addrGood")>>,
           <<W("please"), W("transfer"), N(400000), W("sol"), W("to"), W("addrGood")>>,
           <<W("send"), N(400000), W("sol"), W("to"), W("bob")>> }

\* no limit at all: CeilingBeforeBalance must fail with it
TransferOverLimitNever(amount) == FALSE

TransferOverLimit(amount) == amount > TransferCeiling

setPendingTransaction(details) == details

\* what parseTransactionCommand returns for each of the inputs
TransferParsed == [input \in TransferCommands |-> parseTransactionCommand(input)]

\* execute() up to `await connection.getBalance` in executeTransaction
SendSolStart(p, caller, input) ==
    /\ Free(p)
    /\ CanPrepare
    /\ LET c == Begin("sendSolTransaction", caller, pendingTransaction)
           parsed == TransferParsed[input]
       IN Step(p,
            IF parsed = NULL THEN InvalidCommand(c)
            ELSE LET d == [c EXCEPT !.req = parsed]
                 IN IF ~isValidSolanaAddress(parsed.recipient) THEN Return(d, "badAddress")
                    ELSE IF ~getWalletFromPrivateKey THEN Return(d, "noWallet")
                    ELSE IF TransferOverLimit(parsed.amount) THEN Return(d, "tooLarge")
                    ELSE Await(d, "balance"))
    /\ UNCHANGED <<pendingTransaction, pendingSwap, pendingCrossChainSwap, balance,
                   walletConfigured, attempts, lastPrepared>>
    /\ UNCHANGED cancelled
    /\ UNCHANGED besidesWorkflow

\* a prepare that goes on when getBalance throws: FailsClosed must fail with it
SendSolBalanceOpen(p, answered) ==
    /\ calls[p].tool = "sendSolTransaction"
    /\ calls[p].pc = "balance"
    /\ LET totalCost == calls[p].req.amount + TransferFee
           c == [calls[p] EXCEPT !.short = answered /\ balance < totalCost,
                                 !.lookupFailed = ~answered]
       IN IF answered /\ balance < totalCost
          THEN /\ Step(p, Return(c, "insufficient"))
               /\ UNCHANGED <<pendingTransaction, lastPrepared>>
          ELSE /\ pendingTransaction' = setPendingTransaction(
                      [amount |-> c.req.amount, recipient |-> c.req.recipient,
                       id |-> lastPrepared + 1, owner |-> c.caller,
                       expired |-> FALSE])
               /\ lastPrepared' = lastPrepared + 1
               /\ Step(p, Return([c EXCEPT !.made = lastPrepared + 1], "prepared"))
    /\ UNCHANGED <<pendingSwap, pendingCrossChainSwap, balance, walletConfigured,
                   attempts>>
    /\ UNCHANGED cancelled
    /\ UNCHANGED besidesWorkflow

\* executeTransaction from the answer of getBalance to its return
SendSolBalance(p, answered) ==
    /\ calls[p].tool = "sendSolTransaction"
    /\ calls[p].pc = "balance"
    /\ LET totalCost == calls[p].req.amount + TransferFee
           c == [calls[p] EXCEPT !.short = answered /\ balance < totalCost,
                                 !.lookupFailed = ~answered]
       IN IF ~answered
          THEN /\ Step(p, Return(c, "balanceError"))
               /\ UNCHANGED <<pendingTransaction, lastPrepared>>
          ELSE IF balance < totalCost
          THEN /\ Step(p, Return(c, "insufficient"))
               /\ UNCHANGED <<pendingTransaction, lastPrepared>>
          ELSE /\ pendingTransaction' = setPendingTransaction(
                      [amount |-> c.req.amount, recipient |-> c.req.recipient,
                       id |-> lastPrepared + 1, owner |-> c.caller,
                       expired |-> FALSE])
               /\ lastPrepared' = lastPrepared + 1
               /\ Step(p, Return([c EXCEPT !.made = lastPrepared + 1], "prepared"))
    /\ UNCHANGED <<pendingSwap, pendingCrossChainSwap, balance, walletConfigured,
                   attempts>>
    /\ UNCHANGED cancelled
    /\ UNCHANGED besidesWorkflow

----------------------------------------------------------------------------
(* confirmTransaction *)

ConfirmTransactionInputs ==
    { <<W("confirm"), W("transaction")>>, <<W("yes")>>,
      <<W("cancel"), W("transaction")>>, <<W("n")>>,
      <<W("maybe")>>, <<W("confirm"), W("swap")>> }
    \cup { <<W("confirm"), W("send"), N(a), W("sol"), W("to"), W("addrGood")>> :
             a \in TransferAmounts }
    \cup { <<W("confirm"), W("send"), N(400000), W("sol"), W("to"), W("addrOffKey")>> }

\* the checks without the safety limit: NothingOverCeilingSubmitted must fail
\* with them
ConfirmTxChecksNoLimit(c) ==
    IF ~isValidSolanaAddress(c.req.recipient) THEN Return(c, "badAddress")
    ELSE IF ~getWalletFromPrivateKey THEN Return(c, "noWallet")
    ELSE Await(c, "balance")

\* the checks of execute() between the pending-transaction handling and
\* `await connection.getBalance`
ConfirmTxChecks(c) ==
    IF ~isValidSolanaAddress(c.req.recipient) THEN Return(c, "badAddress")
    ELSE IF ~getWalletFromPrivateKey THEN Return(c, "noWallet")
    ELSE IF TransferOverLimit(c.req.amount) THEN Return(c, "tooLarge")
    ELSE Await(c, "balance")

\* what parseConfirmationCommand returns for each of the inputs
ConfirmTransactionParsed == [input \in ConfirmTransactionInputs |-> parseConfirmationCommand(input)]

\* a simple confirmation that leaves the slot as it is: TakenOnce must fail
\* with it
KeptOnConfirm(pending) == pending

\* `pendingTransaction = null` of the simple confirmation, in the step that
\* read the slot
ClearedOnConfirm(pending) == NULL

\* execute() up to its first await
ConfirmTxStart(p, caller, input) ==
    /\ Free(p)
    /\ LET c == Begin("confirmTransaction", caller, pendingTransaction)
           parsed == ConfirmTransactionParsed[input]
       IN IF parsed = NULL
          THEN /\ Step(p, Return(c, "invalid"))
               /\ UNCHANGED pendingTransaction
          ELSE IF parsed = SIMPLE_CONFIRMATION
          THEN IF pendingTransaction = NULL
               THEN /\ Step(p, Return(c, "nothingPending"))
                    /\ UNCHANGED pendingTransaction
               ELSE /\ Step(p, ConfirmTxChecks([c EXCEPT !.req = pendingTransaction]))
                    /\ pendingTransaction' = ClearedOnConfirm(pendingTransaction)
          ELSE IF parsed = SIMPLE_CANCELLATION
          THEN /\ Step(p, Return(c, "cancelled"))
               /\ pendingTransaction' = NULL
          ELSE \* the full form: the transfer is the one the message names
               /\ Step(p, ConfirmTxChecks([c EXCEPT !.req =
                        [amount |-> parsed.amount, recipient |-> parsed.recipient,
                         id |-> 0, owner |-> caller, expired |-> FALSE]]))
               /\ UNCHANGED pendingTransaction
    /\ UNCHANGED <<pendingSwap, pendingCrossChainSwap, balance, walletConfigured,
                   attempts, lastPrepared>>
    /\ cancelled' = IF ConfirmTransactionParsed[input] = SIMPLE_CANCELLATION
                    THEN Cancel(pendingTransaction) ELSE cancelled
    /\ UNCHANGED besidesWorkflow

\* a required amount without the fee: RecheckedAtExecute must fail with it
requiredAmountNoFee(amount) == amount

\* amount + estimated fee
requiredAmount(amount) == amount + TransferFee

\* from the answer of getBalance to `await sendAndConfirmTransaction`.
\* `short` is history: the balance read was below the amount plus the fee.
ConfirmTxBalance(p, answered, error) ==
    /\ calls[p].tool = "confirmTransaction"
    /\ calls[p].pc = "balance"
    /\ LET initialBalance == balance
           c == [calls[p] EXCEPT !.short =
                    answered /\ initialBalance < calls[p].req.amount + TransferFee]
       IN IF ~answered
          THEN /\ Step(p, Thrown(c, error))
               /\ UNCHANGED attempts
          ELSE IF initialBalance < requiredAmount(c.req.amount)
          THEN /\ Step(p, Return(c, "insufficient"))
               /\ UNCHANGED attempts
          ELSE /\ Step(p, Await(c, "exec"))
               /\ attempts' = Attempt(c.req)
    /\ UNCHANGED <<pendingTransaction, pendingSwap, pendingCrossChainSwap, balance,
                   walletConfigured, lastPrepared>>
    /\ UNCHANGED cancelled
    /\ UNCHANGED besidesWorkflow

\* from the answer of sendAndConfirmTransaction to the return
ConfirmTxSent(p, answered, error) ==
    /\ calls[p].tool = "confirmTransaction"
    /\ calls[p].pc = "exec"
    /\ IF answered
       THEN Step(p, Return(calls[p], "executed"))
       ELSE Step(p, Thrown(calls[p], error))
    /\ UNCHANGED <<pendingTransaction, pendingSwap, pendingCrossChainSwap, balance,
                   walletConfigured, attempts, lastPrepared>>
    /\ UNCHANGED cancelled
    /\ UNCHANGED besidesWorkflow

----------------------------------------------------------------------------
(* swapTokens *)

SwapAmounts == {0, 400000, 10000000, 11000000}

SwapCommands ==
    { <<W("buy"), N(a), W("sol"), W("of"), W("bonk")>> : a \in SwapAmounts }
    \cup { <<W("buy"), N(400000), W("sol"), W("worth"), W("of"), W("wif")>>,
           <<W("sell"), N(400000), W("bonk"), W("for"), W("sol")>>,
           <<W("convert"), N(400000), W("usdc"), W("to"), W("wif")>>,
           <<W("swap"), N(400000), W("sol"), W("from"), W("solana"), W("to"),
             W("usdc"), W("on"), W("ethereum")>>,
           <<W("hello")>> }

KNOWN_TOKENS == {"sol", "wsol", "usdc", "usdt", "bonk", "jitosol"}

\* resolveTokenMint finds the token: it is a known one, or the Jupiter search
\* returns a result (found)
resolveTokenMint(tokenSymbol, found) == tokenSymbol \in KNOWN_TOKENS \/ found

\* a swap limit as wide as the cross-chain one: OverCeilingRejected must fail with it
SwapOverLimitWide(amount) == amount > CrossChainCeiling

SwapOverLimit(amount) == amount > SwapCeiling

\* what parseSwapCommand returns for each of the inputs
SwapParsed == [input \in SwapCommands |-> parseSwapCommand(input)]

\* execute() up to `await getJupiterQuote`: the awaits of resolveTokenMint
\* before it read and write nothing the tools share
SwapStart(p, caller, input, found) ==
    /\ Free(p)
    /\ CanPrepare
    /\ LET c == Begin("swapTokens", caller, pendingSwap)
           parsed == SwapParsed[input]
       IN Step(p,
            IF parsed = NULL THEN InvalidCommand(c)
            ELSE LET d == [c EXCEPT !.req = parsed,
                                    !.short = /\ parsed.fromToken = "sol"
                                              /\ balance < parsed.amount + TransferFee]
                 IN IF SwapOverLimit(parsed.amount) THEN Return(d, "tooLarge")
                    ELSE IF ~getWalletFromPrivateKey THEN Return(d, "noWallet")
                    ELSE IF \/ ~resolveTokenMint(parsed.fromToken, found)
                            \/ ~resolveTokenMint(parsed.toToken, found)
                    THEN Return([d EXCEPT !.external = TRUE], "tokenNotFound")
                    ELSE Await([d EXCEPT !.quoted = TRUE], "quote"))
    /\ UNCHANGED <<pendingTransaction, pendingSwap, pendingCrossChainSwap, balance,
                   walletConfigured, attempts, lastPrepared>>
    /\ UNCHANGED cancelled
    /\ UNCHANGED besidesWorkflow

\* the answers of a quote provider: a quote, nothing, an exception
QuoteAnswers == {"quote", "none", "throws"}

\* a prepare that empties the slot when the quote provider throws:
\* FailedPrepareKeeps must fail with it
SwapQuotedClears(p, answer) ==
    /\ calls[p].tool = "swapTokens"
    /\ calls[p].pc = "quote"
    /\ LET c == calls[p]
       IN IF answer = "throws"
          THEN /\ Step(p, Return(c, "quoteError"))
               /\ pendingSwap' = NULL
               /\ UNCHANGED lastPrepared
          ELSE IF answer = "none"
          THEN /\ Step(p, Return(c, "noQuote"))
               /\ UNCHANGED <<pendingSwap, lastPrepared>>
          ELSE /\ pendingSwap' =
                      [inputAmount |-> c.req.amount, inputToken |-> c.req.fromToken,
                       outputToken |-> c.req.toToken, quote |-> lastPrepared + 1,
                       id |-> lastPrepared + 1, owner |-> c.caller,
                       expired |-> FALSE]
               /\ lastPrepared' = lastPrepared + 1
               /\ Step(p, Return([c EXCEPT !.made = lastPrepared + 1], "prepared"))
    /\ UNCHANGED <<pendingTransaction, pendingCrossChainSwap, balance,
                   walletConfigured, attempts>>
    /\ UNCHANGED cancelled
    /\ UNCHANGED besidesWorkflow

\* from the answer of getJupiterQuote to the return
SwapQuoted(p, answer) ==
    /\ calls[p].tool = "swapTokens"
    /\ calls[p].pc = "quote"
    /\ LET c == calls[p]
       IN IF answer = "throws"
          THEN /\ Step(p, Return(c, "quoteError"))
               /\ UNCHANGED <<pendingSwap, lastPrepared>>
          ELSE IF answer = "none"
          THEN /\ Step(p, Return(c, "noQuote"))
               /\ UNCHANGED <<pendingSwap, lastPrepared>>
          ELSE /\ pendingSwap' =
                      [inputAmount |-> c.req.amount, inputToken |-> c.req.fromToken,
                       outputToken |-> c.req.toToken, quote |-> lastPrepared + 1,
                       id |-> lastPrepared + 1, owner |-> c.caller,
                       expired |-> FALSE]
               /\ lastPrepared' = lastPrepared + 1
               /\ Step(p, Return([c EXCEPT !.made = lastPrepared + 1], "prepared"))
    /\ UNCHANGED <<pendingTransaction, pendingCrossChainSwap, balance,
                   walletConfigured, attempts>>
    /\ UNCHANGED cancelled
    /\ UNCHANGED besidesWorkflow

getPendingSwap == pendingSwap

\* a clear that leaves the slot as it is: ConfirmClearsPending must fail with it
clearPendingSwapKeeps == pendingSwap

clearPendingSwap == NULL

----------------------------------------------------------------------------
(* confirmSwap *)

SwapConfirmInputs ==
    { <<W("confirm"), W("swap")>>, <<W("yes"), W("swap")>>,
      <<W("cancel"), W("swap")>>, <<W("no"), W("swap")>>,
      <<W("yes")>>, <<W("please"), W("confirm"), W("the"), W("swap")>>,
      <<W("confirm"), W("cross-chain"), W("swap")>>,
      <<W("do"), W("not"), W("confirm"), W("cancel"), W("swap")>> }

\* what parseSwapConfirmation returns for each of the inputs
SwapConfirmParsed == [input \in SwapConfirmInputs |-> parseSwapConfirmation(input)]

\* a confirm that drops the pending swap at a message it does not
\* understand: InvalidChangesNothing must fail with it
ConfirmSwapStartDrops(p, caller, input) ==
    /\ Free(p)
    /\ LET c == Begin("confirmSwap", caller, pendingSwap)
           response == SwapConfirmParsed[input]
       IN IF response = "invalid"
          THEN /\ Step(p, Return(c, "invalid"))
               /\ pendingSwap' = clearPendingSwap
               /\ UNCHANGED attempts
          ELSE IF response = "cancel"
          THEN /\ pendingSwap' = clearPendingSwap
               /\ Step(p, Return(c, "cancelled"))
               /\ UNCHANGED attempts
          ELSE IF getPendingSwap = NULL
          THEN /\ Step(p, Return(c, "nothingPending"))
               /\ UNCHANGED <<pendingSwap, attempts>>
          ELSE IF ~getWalletFromPrivateKey
          THEN /\ pendingSwap' = clearPendingSwap
               /\ Step(p, Return([c EXCEPT !.req = getPendingSwap], "noWallet"))
               /\ UNCHANGED attempts
          ELSE /\ Step(p, Await([c EXCEPT !.req = getPendingSwap], "exec"))
               /\ attempts' = Attempt(getPendingSwap)
               /\ UNCHANGED pendingSwap
    /\ UNCHANGED <<pendingTransaction, pendingCrossChainSwap, balance,
                   walletConfigured, lastPrepared>>
    /\ cancelled' = IF SwapConfirmParsed[input] = "cancel"
                    THEN Cancel(pendingSwap) ELSE cancelled
    /\ UNCHANGED besidesWorkflow

\* execute() up to the await in executeJupiterSwap
ConfirmSwapStart(p, caller, input) ==
    /\ Free(p)
    /\ LET c == Begin("confirmSwap", caller, pendingSwap)
           response == SwapConfirmParsed[input]
       IN IF response = "invalid"
          THEN /\ Step(p, Return(c, "invalid"))
               /\ UNCHANGED <<pendingSwap, attempts>>
          ELSE IF response = "cancel"
          THEN /\ pendingSwap' = clearPendingSwap
               /\ Step(p, Return(c, "cancelled"))
               /\ UNCHANGED attempts
          ELSE IF getPendingSwap = NULL
          THEN /\ Step(p, Return(c, "nothingPending"))
               /\ UNCHANGED <<pendingSwap, attempts>>
          ELSE IF ~getWalletFromPrivateKey
          THEN /\ pendingSwap' = clearPendingSwap
               /\ Step(p, Return([c EXCEPT !.req = getPendingSwap], "noWallet"))
               /\ UNCHANGED attempts
          ELSE /\ Step(p, Await([c EXCEPT !.req = getPendingSwap], "exec"))
               /\ attempts' = Attempt(getPendingSwap)
               /\ UNCHANGED pendingSwap
    /\ UNCHANGED <<pendingTransaction, pendingCrossChainSwap, balance,
                   walletConfigured, lastPrepared>>
    /\ cancelled' = IF SwapConfirmParsed[input] = "cancel"
                    THEN Cancel(pendingSwap) ELSE cancelled
    /\ UNCHANGED besidesWorkflow

\* from the end of executeJupiterSwap and of connection.confirmTransaction
\* (the swap is done, or one of them throws) to the return
ConfirmSwapDone(p, answered, error) ==
    /\ calls[p].tool = "confirmSwap"
    /\ calls[p].pc = "exec"
    /\ pendingSwap' = clearPendingSwap
    /\ IF answered
       THEN Step(p, Return(calls[p], "executed"))
       ELSE Step(p, Thrown(calls[p], error))
    /\ UNCHANGED <<pendingTransaction, pendingCrossChainSwap, balance,
                   walletConfigured, attempts, lastPrepared>>
    /\ UNCHANGED cancelled
    /\ UNCHANGED besidesWorkflow

----------------------------------------------------------------------------
(* prepareCrossChainSwap *)

CrossChainAmounts == {0, 300000, 100000000, 101000000}

CrossChainCommands ==
    { <<W("bridge"), N(a), W("usdc"), W("from"), W("solana"), W("to"), W("ethereum")>> :
        a \in CrossChainAmounts }
    \cup { <<W("swap"), N(a), W("sol"), W("from"), W("solana"), W("to"), W("usdc"),
             W("on"), W("ethereum")>> : a \in {300000, 101000000} }
    \cup { <<W("transfer"), N(300000), W("usdc"), W("from"), W("ethereum"), W("to"),
             W("solana")>>,
           <<W("bridge"), N(300000), W("wif"), W("from"), W("solana"), W("to"),
             W("base")>>,
           <<W("bridge"), N(300000), W("usdc"), W("from"), W("solana"), W("to"),
             W("mars")>>,
           <<W("hello")>> }

\* the destinationAddress argument: given or missing
Destinations == {"0xdest", ""}

\* KNOWN_TOKEN_CONTRACTS, the chains and tokens of the commands
KNOWN_TOKEN_CONTRACTS(chain) ==
    CASE chain = "solana" -> {"sol", "wsol", "usdc", "usdt", "bonk", "jitosol"}
      [] chain = "ethereum" -> {"eth", "usdc", "usdt", "weth"}
      [] chain = "base" -> {"eth", "usdc", "weth"}
      [] OTHER -> {}

\* resolveTokenContract finds the token: a known contract, or on Solana a
\* Jupiter search result with liquidity (found); the symbols of the commands
\* are no addresses
resolveTokenContract(tokenSymbol, chain, found) ==
    \/ tokenSymbol \in KNOWN_TOKEN_CONTRACTS(chain)
    \/ chain = "solana" /\ found

\* a limit one SOL too high: AmountsWithinCeiling must fail with it
CrossChainOverLimitHigh(amount) == amount > CrossChainCeiling + MicroPerSol

CrossChainOverLimit(amount) == amount > CrossChainCeiling

\* from the token resolution to `await fetchQuote`
PrepareCrossChainResolve(c, found) ==
    IF \/ ~resolveTokenContract(c.req.fromToken, c.req.fromChain, found)
       \/ ~resolveTokenContract(c.req.toToken, c.req.toChain, found)
    THEN Return([c EXCEPT !.external =
                    \/ c.external
                    \/ /\ c.req.fromChain = "solana"
                       /\ c.req.fromToken \notin KNOWN_TOKEN_CONTRACTS("solana")
                    \/ /\ c.req.toChain = "solana"
                       /\ c.req.toToken \notin KNOWN_TOKEN_CONTRACTS("solana")],
                "tokenNotFound")
    ELSE Await([c EXCEPT !.quoted = TRUE], "quote")

\* what parseCrossChainSwapCommand returns for each of the inputs
CrossChainParsed == [input \in CrossChainCommands |-> parseCrossChainSwapCommand(input)]

\* execute() up to `await connection.getBalance` (source chain Solana) or up
\* to `await fetchQuote`
PrepareCrossChainStart(p, caller, input, destinationAddress, found) ==
    /\ Free(p)
    /\ CanPrepare
    /\ LET c == Begin("prepareCrossChainSwap", caller, pendingCrossChainSwap)
           parsed == CrossChainParsed[input]
       IN Step(p,
            IF parsed = NULL THEN InvalidCommand(c)
            ELSE LET d == [c EXCEPT !.req =
                             [amount |-> parsed.amount, fromToken |-> parsed.fromToken,
                              toToken |-> parsed.toToken, fromChain |-> parsed.fromChain,
                              toChain |-> parsed.toChain,
                              destinationAddress |-> destinationAddress]]
                 IN IF \/ parsed.fromChain \notin SUPPORTED_CHAINS
                       \/ parsed.toChain \notin SUPPORTED_CHAINS
                    THEN Return(d, "unsupportedChain")
                    ELSE IF destinationAddress = "" THEN Return(d, "noDestination")
                    ELSE IF CrossChainOverLimit(parsed.amount) THEN Return(d, "tooLarge")
                    ELSE IF parsed.fromChain = "solana"
                    THEN IF ~getWalletFromPrivateKey THEN Return(d, "noWallet")
                         ELSE Await(d, "balance")
                    ELSE PrepareCrossChainResolve(d, found))
    /\ UNCHANGED <<pendingTransaction, pendingSwap, pendingCrossChainSwap, balance,
                   walletConfigured, attempts, lastPrepared>>
    /\ UNCHANGED cancelled
    /\ UNCHANGED besidesWorkflow

\* the balance the prepare requires
PrepareRequired(req) ==
    IF req.fromToken = "sol" THEN req.amount + CrossChainFees ELSE CrossChainFees

\* from the answer of getBalance to `await fetchQuote`
PrepareCrossChainBalance(p, answered, found) ==
    /\ calls[p].tool = "prepareCrossChainSwap"
    /\ calls[p].pc = "balance"
    /\ LET c == [calls[p] EXCEPT !.short =
                    /\ answered
                    /\ balance < calls[p].req.amount + CrossChainFees
                    /\ calls[p].req.fromToken = "sol",
                 !.lookupFailed = ~answered]
       IN Step(p,
            IF ~answered THEN Return(c, "balanceError")
            ELSE IF balance < PrepareRequired(c.req) THEN Return(c, "insufficient")
            ELSE PrepareCrossChainResolve(c, found))
    /\ UNCHANGED <<pendingTransaction, pendingSwap, pendingCrossChainSwap, balance,
                   walletConfigured, attempts, lastPrepared>>
    /\ UNCHANGED cancelled
    /\ UNCHANGED besidesWorkflow

\* from the answer of fetchQuote to the return
PrepareCrossChainQuoted(p, answer) ==
    /\ calls[p].tool = "prepareCrossChainSwap"
    /\ calls[p].pc = "quote"
    /\ LET c == calls[p]
       IN IF answer = "throws"
          THEN /\ Step(p, Return(c, "quoteError"))
               /\ UNCHANGED <<pendingCrossChainSwap, lastPrepared>>
          ELSE IF answer = "none"
          THEN /\ Step(p, Return(c, "noRoute"))
               /\ UNCHANGED <<pendingCrossChainSwap, lastPrepared>>
          ELSE /\ pendingCrossChainSwap' =
                      [quote |-> lastPrepared + 1, fromToken |-> c.req.fromToken,
                       toToken |-> c.req.toToken, fromChain |-> c.req.fromChain,
                       toChain |-> c.req.toChain, amount |-> c.req.amount,
                       destinationAddress |-> c.req.destinationAddress,
                       id |-> lastPrepared + 1, owner |-> c.caller,
                       expired |-> FALSE]
               /\ lastPrepared' = lastPrepared + 1
               /\ Step(p, Return([c EXCEPT !.made = lastPrepared + 1], "prepared"))
    /\ UNCHANGED <<pendingTransaction, pendingSwap, balance, walletConfigured,
                   attempts>>
    /\ UNCHANGED cancelled
    /\ UNCHANGED besidesWorkflow

getPendingCrossChainSwap == pendingCrossChainSwap

\* a clear that leaves the slot as it is: CancelledNeverExecuted must fail with it
clearPendingCrossChainSwapKeeps == pendingCrossChainSwap

clearPendingCrossChainSwap == NULL

----------------------------------------------------------------------------
(* confirmCrossChainSwap *)

CrossChainConfirmInputs ==
    { <<W("confirm"), W("cross-chain"), W("swap")>>,
      <<W("yes"), W("crosschain"), W("swap")>>,
      <<W("confirm"), W("swap")>>,
      <<W("cancel"), W("cross-chain"), W("swap")>>,
      <<W("no"), W("cross"), W("chain"), W("swap")>>,
      <<W("cancel"), W("swap")>>,
      <<W("yes")>>,
      <<W("do"), W("not"), W("cancel"), W("crosschain")>> }

\* what parseCrossChainConfirmation returns for each of the inputs
CrossChainConfirmParsed == [input \in CrossChainConfirmInputs |-> parseCrossChainConfirmation(input)]

\* a confirm that goes on to the execution from any source chain:
\* OnlyFromSolanaSubmitted must fail with it
ConfirmCrossChainStartAnyChain(p, caller, input) ==
    /\ Free(p)
    /\ LET c == Begin("confirmCrossChainSwap", caller, pendingCrossChainSwap)
           response == CrossChainConfirmParsed[input]
           pending == getPendingCrossChainSwap
       IN IF response = "invalid"
          THEN /\ Step(p, Return(c, "invalid"))
               /\ UNCHANGED pendingCrossChainSwap
          ELSE IF response = "cancel"
          THEN /\ pendingCrossChainSwap' = clearPendingCrossChainSwap
               /\ Step(p, Return(c, "cancelled"))
          ELSE IF pending = NULL
          THEN /\ Step(p, Return(c, "nothingPending"))
               /\ UNCHANGED pendingCrossChainSwap
          ELSE IF pending.fromChain \in SUPPORTED_CHAINS
          THEN IF ~getWalletFromPrivateKey
               THEN /\ pendingCrossChainSwap' = clearPendingCrossChainSwap
                    /\ Step(p, Return([c EXCEPT !.req = pending], "noWallet"))
               ELSE /\ Step(p, Await([c EXCEPT !.req = pending], "balance"))
                    /\ UNCHANGED pendingCrossChainSwap
          ELSE /\ pendingCrossChainSwap' = clearPendingCrossChainSwap
               /\ Step(p, Return([c EXCEPT !.req = pending], "notSupported"))
    /\ UNCHANGED <<pendingTransaction, pendingSwap, balance, walletConfigured,
                   attempts, lastPrepared>>
    /\ cancelled' = IF CrossChainConfirmParsed[input] = "cancel"
                    THEN Cancel(pendingCrossChainSwap) ELSE cancelled
    /\ UNCHANGED besidesWorkflow

\* execute() up to `await connection.getBalance`
ConfirmCrossChainStart(p, caller, input) ==
    /\ Free(p)
    /\ LET c == Begin("confirmCrossChainSwap", caller, pendingCrossChainSwap)
           response == CrossChainConfirmParsed[input]
           pending == getPendingCrossChainSwap
       IN IF response = "invalid"
          THEN /\ Step(p, Return(c, "invalid"))
               /\ UNCHANGED pendingCrossChainSwap
          ELSE IF response = "cancel"
          THEN /\ pendingCrossChainSwap' = clearPendingCrossChainSwap
               /\ Step(p, Return(c, "cancelled"))
          ELSE IF pending = NULL
          THEN /\ Step(p, Return(c, "nothingPending"))
               /\ UNCHANGED pendingCrossChainSwap
          ELSE IF pending.fromChain = "solana"
          THEN IF ~getWalletFromPrivateKey
               THEN /\ pendingCrossChainSwap' = clearPendingCrossChainSwap
                    /\ Step(p, Return([c EXCEPT !.req = pending], "noWallet"))
               ELSE /\ Step(p, Await([c EXCEPT !.req = pending], "balance"))
                    /\ UNCHANGED pendingCrossChainSwap
          ELSE /\ pendingCrossChainSwap' = clearPendingCrossChainSwap
               /\ Step(p, Return([c EXCEPT !.req = pending], "notSupported"))
    /\ UNCHANGED <<pendingTransaction, pendingSwap, balance, walletConfigured,
                   attempts, lastPrepared>>
    /\ cancelled' = IF CrossChainConfirmParsed[input] = "cancel"
                    THEN Cancel(pendingCrossChainSwap) ELSE cancelled
    /\ UNCHANGED besidesWorkflow

\* the slot read again after the await: ExecutesStoredQuote must fail with it
QuoteToExecuteReread(c) ==
    IF pendingCrossChainSwap # NULL THEN pendingCrossChainSwap ELSE c.req

\* what swapFromSolana is called with: pendingSwap.quote and
\* pendingSwap.destinationAddress of the local constant pendingSwap, read
\* from the slot before the await of getBalance
QuoteToExecute(c) == c.req

\* from the answer of getBalance to `await swapFromSolana`
ConfirmCrossChainBalance(p, answered, error) ==
    /\ calls[p].tool = "confirmCrossChainSwap"
    /\ calls[p].pc = "balance"
    /\ LET c == calls[p]
           totalRequired == c.req.amount + CrossChainFees
       IN IF ~answered
          THEN /\ pendingCrossChainSwap' = clearPendingCrossChainSwap
               /\ Step(p, Thrown(c, error))
               /\ UNCHANGED attempts
          ELSE IF balance < totalRequired
          THEN /\ pendingCrossChainSwap' = clearPendingCrossChainSwap
               /\ Step(p, Return(c, "insufficient"))
               /\ UNCHANGED attempts
          ELSE /\ Step(p, Await([c EXCEPT !.req = QuoteToExecute(c)], "exec"))
               /\ attempts' = Attempt(QuoteToExecute(c))
               /\ UNCHANGED pendingCrossChainSwap
    /\ UNCHANGED <<pendingTransaction, pendingSwap, balance, walletConfigured,
                   lastPrepared>>
    /\ UNCHANGED cancelled
    /\ UNCHANGED besidesWorkflow

\* from the end of swapFromSolana (done, or it throws) to the return
ConfirmCrossChainDone(p, answered, error) ==
    /\ calls[p].tool = "confirmCrossChainSwap"
    /\ calls[p].pc = "exec"
    /\ pendingCrossChainSwap' = clearPendingCrossChainSwap
    /\ IF answered
       THEN Step(p, Return(calls[p], "executed"))
       ELSE Step(p, Thrown(calls[p], error))
    /\ UNCHANGED <<pendingTransaction, pendingSwap, balance, walletConfigured,
                   attempts, lastPrepared>>
    /\ UNCHANGED cancelled
    /\ UNCHANGED besidesWorkflow

----------------------------------------------------------------------------
(* Environment *)

\* the wallet's balance changes: a transfer or swap settles, funds arrive
BalanceChanges(b) ==
    /\ b # balance
    /\ balance' = b
    /\ UNCHANGED <<pendingTransaction, pendingSwap, pendingCrossChainSwap, calls,
                   last, walletConfigured, attempts, lastPrepared>>
    /\ UNCHANGED cancelled
    /\ UNCHANGED besidesWorkflow

\* time passes: the validity window of the pending swap (its quote) ends.
\* The code keeps no time stamp; `expired` is history only.
SwapExpires ==
    /\ pendingSwap # NULL
    /\ ~pendingSwap.expired
    /\ pendingSwap' = [pendingSwap EXCEPT !.expired = TRUE]
    /\ UNCHANGED <<pendingTransaction, pendingCrossChainSwap, calls, last, balance,
                   walletConfigured, attempts, lastPrepared>>
    /\ UNCHANGED cancelled
    /\ UNCHANGED besidesWorkflow

CrossChainSwapExpires ==
    /\ pendingCrossChainSwap # NULL
    /\ ~pendingCrossChainSwap.expired
    /\ pendingCrossChainSwap' = [pendingCrossChainSwap EXCEPT !.expired = TRUE]
    /\ UNCHANGED <<pendingTransaction, pendingSwap, calls, last, balance,
                   walletConfigured, attempts, lastPrepared>>
    /\ UNCHANGED cancelled
    /\ UNCHANGED besidesWorkflow

----------------------------------------------------------------------------
(* Specifications *)

\* the tools of one kind, called by the sessions of OS in the slots of PS
\* with the commands of Cmds
TransferTools(PS, OS, Cmds, Errs) ==
    \/ \E p \in PS, o \in OS, i \in Cmds : SendSolStart(p, o, i)
    \/ \E p \in PS, a \in BOOLEAN : SendSolBalance(p, a)
    \/ \E p \in PS, o \in OS, i \in ConfirmTransactionInputs : ConfirmTxStart(p, o, i)
    \/ \E p \in PS, a \in BOOLEAN, e \in Errs : ConfirmTxBalance(p, a, e)
    \/ \E p \in PS, a \in BOOLEAN, e \in Errs : ConfirmTxSent(p, a, e)

SwapTools(PS, OS, Cmds, Errs) ==
    \/ \E p \in PS, o \in OS, i \in Cmds, f \in BOOLEAN : SwapStart(p, o, i, f)
    \/ \E p \in PS, a \in QuoteAnswers : SwapQuoted(p, a)
    \/ \E p \in PS, o \in OS, i \in SwapConfirmInputs : ConfirmSwapStart(p, o, i)
    \/ \E p \in PS, a \in BOOLEAN, e \in Errs : ConfirmSwapDone(p, a, e)

CrossChainTools(PS, OS, Cmds, Errs) ==
    \/ \E p \in PS, o \in OS, i \in Cmds, d \in Destinations, f \in BOOLEAN :
          PrepareCrossChainStart(p, o, i, d, f)
    \/ \E p \in PS, a \in BOOLEAN, f \in BOOLEAN : PrepareCrossChainBalance(p, a, f)
    \/ \E p \in PS, a \in QuoteAnswers : PrepareCrossChainQuoted(p, a)
    \/ \E p \in PS, o \in OS, i \in CrossChainConfirmInputs : ConfirmCrossChainStart(p, o, i)
    \/ \E p \in PS, a \in BOOLEAN, e \in Errs : ConfirmCrossChainBalance(p, a, e)
    \/ \E p \in PS, a \in BOOLEAN, e \in Errs : ConfirmCrossChainDone(p, a, e)

\* one command of each outcome of the parsers and of the source chains, for
\* the specifications about calls in flight together
SwapCore ==
    { <<W("buy"), N(400000), W("sol"), W("of"), W("bonk")>>, <<W("hello")>> }

CrossChainCore ==
    { <<W("swap"), N(300000), W("sol"), W("from"), W("solana"), W("to"), W("usdc"),
        W("on"), W("ethereum")>>,
      <<W("bridge"), N(100000000), W("usdc"), W("from"), W("solana"), W("to"),
        W("ethereum")>>,
      <<W("transfer"), N(300000), W("usdc"), W("from"), W("ethereum"), W("to"),
        W("solana")>>,
      <<W("hello")>> }

\* the transfer tools, one session, calls in flight together
NextTransfer ==
    \/ TransferTools(Procs, {"u1"}, TransferCommands, OneError)
    \/ \E b \in Balances : BalanceChanges(b)

SpecTransfer == Init /\ [][NextTransfer]_vars

\* the swap tools, one session, calls in flight together, time passing
NextSwap ==
    \/ SwapTools(Procs, {"u1"}, SwapCommands, OneError)
    \/ \E b \in Balances : BalanceChanges(b)
    \/ SwapExpires

SpecSwap == Init /\ [][NextSwap]_vars

\* the cross-chain tools, one session, calls in flight together, time passing
NextCrossChain ==
    \/ CrossChainTools(Procs, {"u1"}, CrossChainCommands, OneError)
    \/ \E b \in Balances : BalanceChanges(b)
    \/ CrossChainSwapExpires

SpecCrossChain == Init /\ [][NextCrossChain]_vars

\* the swap and the cross-chain tools, one session, calls in flight together
NextConfirm ==
    \/ SwapTools(Procs, {"u1"}, SwapCore, OneError)
    \/ CrossChainTools(Procs, {"u1"}, CrossChainCore, OneError)
    \/ \E b \in Balances : BalanceChanges(b)

SpecConfirm == Init /\ [][NextConfirm]_vars

\* all tools, one session, one call at a time
NextSequential ==
    \/ TransferTools({1}, {"u1"}, TransferCommands, ExecutionErrors)
    \/ SwapTools({1}, {"u1"}, SwapCommands, ExecutionErrors)
    \/ CrossChainTools({1}, {"u1"}, CrossChainCommands, ExecutionErrors)
    \/ \E b \in Balances : BalanceChanges(b)

SpecSequential == Init /\ [][NextSequential]_vars

\* the commands given to each prepare that none of its patterns matches
Unparsed ==
    [sendSolTransaction |-> {x \in TransferCommands : TransferParsed[x] = NULL},
     swapTokens |-> {x \in SwapCommands : SwapParsed[x] = NULL},
     prepareCrossChainSwap |->
        {x \in CrossChainCommands : CrossChainParsed[x] = NULL}]

\* the three prepares, one session, one call at a time; of the swap and
\* cross-chain commands, the core ones and all that no pattern matches
NextPrepare ==
    \/ \E i \in TransferCommands : SendSolStart(1, "u1", i)
    \/ \E a \in BOOLEAN : SendSolBalance(1, a)
    \/ \E i \in SwapCore \cup Unparsed.swapTokens, f \in BOOLEAN :
          SwapStart(1, "u1", i, f)
    \/ \E a \in QuoteAnswers : SwapQuoted(1, a)
    \/ \E i \in CrossChainCore \cup Unparsed.prepareCrossChainSwap,
          d \in Destinations, f \in BOOLEAN :
          PrepareCrossChainStart(1, "u1", i, d, f)
    \/ \E a \in BOOLEAN, f \in BOOLEAN : PrepareCrossChainBalance(1, a, f)
    \/ \E a \in QuoteAnswers : PrepareCrossChainQuoted(1, a)
    \/ \E b \in Balances : BalanceChanges(b)

SpecPrepare == Init /\ [][NextPrepare]_vars

\* the three prepares, one session, one call at a time, all the commands
NextPrepareAll ==
    \/ \E i \in TransferCommands : SendSolStart(1, "u1", i)
    \/ \E a \in BOOLEAN : SendSolBalance(1, a)
    \/ \E i \in SwapCommands, f \in BOOLEAN : SwapStart(1, "u1", i, f)
    \/ \E a \in QuoteAnswers : SwapQuoted(1, a)
    \/ \E i \in CrossChainCommands, d \in Destinations, f \in BOOLEAN :
          PrepareCrossChainStart(1, "u1", i, d, f)
    \/ \E a \in BOOLEAN, f \in BOOLEAN : PrepareCrossChainBalance(1, a, f)
    \/ \E a \in QuoteAnswers : PrepareCrossChainQuoted(1, a)
    \/ \E b \in Balances : BalanceChanges(b)

SpecPrepareAll == Init /\ [][NextPrepareAll]_vars

TransferCore ==
    { <<W("send"), N(400000), W("sol"), W("to"), W("addrGood")>>, <<W("hello")>> }

\* all tools, one session, one call at a time, the core commands
NextFollowUp ==
    \/ TransferTools({1}, {"u1"}, TransferCore, OneError)
    \/ SwapTools({1}, {"u1"}, SwapCore, OneError)
    \/ CrossChainTools({1}, {"u1"}, CrossChainCore, OneError)
    \/ \E b \in Balances : BalanceChanges(b)

SpecFollowUp == Init /\ [][NextFollowUp]_vars

\* the swap tools, two sessions, calls in flight together
NextOwners ==
    \/ SwapTools(Procs, Owners, SwapCore, OneError)

SpecOwners == Init /\ [][NextOwners]_vars

----------------------------------------------------------------------------
(* The confirmation parsers, message by message *)

\* longest message given to the parsers, in words
MaxWords == 3

ParserWords ==
    {"yes", "y", "confirm", "no", "n", "cancel", "swap", "transaction", "send",
     "cross-chain", "not", "hello"}

\* what the parser of a confirm tool makes of a message
Verdict(tool, message) ==
    CASE tool = "confirmSwap" -> parseSwapConfirmation(message)
      [] tool = "confirmCrossChainSwap" -> parseCrossChainConfirmation(message)
      [] tool = "confirmTransaction" ->
            LET parsed == parseConfirmationCommand(message)
            IN IF parsed = NULL THEN "invalid"
               ELSE IF parsed = SIMPLE_CANCELLATION THEN "cancel"
               ELSE "confirm"

\* a confirm tool parses a message: the messages are taken in the order of
\* their length, each one the message before and one more word
Hear(tool, word) ==
    /\ heard.tool \in {"none", tool}
    /\ Len(heard.message) < MaxWords
    /\ LET message == Append(heard.message, W(word))
       IN heard' = [tool |-> tool, message |-> message,
                    verdict |-> Verdict(tool, message)]
    /\ UNCHANGED besidesParser

NextParse ==
    \E tool \in {"confirmTransaction", "confirmSwap", "confirmCrossChainSwap"},
       word \in ParserWords : Hear(tool, word)

\* the tools are idle: one wallet, one balance
InitParse == Init /\ walletConfigured /\ balance = 1000005

SpecParse == InitParse /\ [][NextParse]_vars

----------------------------------------------------------------------------
(* getWalletPortfolio: validateTokenPrice and the circuit breaker *)

MAX_FAILURES == 5
CIRCUIT_BREAKER_TIMEOUT == 60000
\* JUPITER_API_CONFIG.retries, JUPITER_API_CONFIG.retryDelay,
\* JUPITER_API_CONFIG.timeout
retries == 2
retryDelay == 1000
timeout == 10000

\* the clock moves in steps of Tick ms, MaxTicks times
Tick == 30000
MaxTicks == 4

SOL_MINT == "So11111111111111111111111111111111111111112"
WSOL_MINT == "So11111111111111111111111111111111111111112"

Mints == {SOL_MINT, WSOL_MINT, "tokenMint"}

\* a breaker that opens one failure late: BreakerOpenSkips must fail with it
isJupiterApiDownLate ==
    IF jupiterApiFailures > MAX_FAILURES
    THEN IF now - lastJupiterFailureTime < CIRCUIT_BREAKER_TIMEOUT
         THEN [down |-> TRUE, failures |-> jupiterApiFailures,
               last |-> lastJupiterFailureTime]
         ELSE [down |-> FALSE, failures |-> 0, last |-> 0]
    ELSE [down |-> FALSE, failures |-> jupiterApiFailures,
          last |-> lastJupiterFailureTime]

\* a breaker that closes with its count kept: ResetAfterLastFailure must fail
\* with it
isJupiterApiDownKeepsCount ==
    IF jupiterApiFailures >= MAX_FAILURES
    THEN IF now - lastJupiterFailureTime < CIRCUIT_BREAKER_TIMEOUT
         THEN [down |-> TRUE, failures |-> jupiterApiFailures,
               last |-> lastJupiterFailureTime]
         ELSE [down |-> FALSE, failures |-> jupiterApiFailures, last |-> 0]
    ELSE [down |-> FALSE, failures |-> jupiterApiFailures,
          last |-> lastJupiterFailureTime]

\* isJupiterApiDown(): what it returns (down) and what it leaves in
\* jupiterApiFailures and lastJupiterFailureTime
isJupiterApiDown ==
    IF jupiterApiFailures >= MAX_FAILURES
    THEN IF now - lastJupiterFailureTime < CIRCUIT_BREAKER_TIMEOUT
         THEN [down |-> TRUE, failures |-> jupiterApiFailures,
               last |-> lastJupiterFailureTime]
         ELSE [down |-> FALSE, failures |-> 0, last |-> 0]
    ELSE [down |-> FALSE, failures |-> jupiterApiFailures,
          last |-> lastJupiterFailureTime]

\* recordJupiterFailure(): what it leaves in the two variables
recordJupiterFailure ==
    [failures |-> jupiterApiFailures + 1, last |-> now]

\* the slot a new call of validateTokenPrice takes
FreeValidation(p) ==
    /\ validations[p] = NoValidation
    /\ \A q \in Procs : q < p => validations[q] # NoValidation

\* a validation that fails closed: FailsOpen must fail with it
validateTokenPriceReturnClosed(outcome) ==
    IF outcome \in {"sol", "valid"}
    THEN [isValid |-> TRUE, validatedPrice |-> "jupiterPrice"]
    ELSE [isValid |-> FALSE, validatedPrice |-> "zero"]

\* the return statements of validateTokenPrice: SOL / WSOL, breaker open,
\* data that passes, all attempts failed; data that does not pass, no data
validateTokenPriceReturn(outcome) ==
    IF outcome \in {"sol", "skipped", "valid", "allowed"}
    THEN [isValid |-> TRUE, validatedPrice |-> "jupiterPrice"]
    ELSE [isValid |-> FALSE, validatedPrice |-> "zero"]

\* the call v returns `outcome`, the failure count being `failures`
Validated(v, outcome, failures) ==
    [mint |-> v.mint, outcome |-> outcome, reached |-> v.reached,
     open |-> v.open, elapsed |-> v.elapsed, count |-> v.count,
     requests |-> v.requests, failures |-> failures,
     isValid |-> validateTokenPriceReturn(outcome).isValid,
     validatedPrice |-> validateTokenPriceReturn(outcome).validatedPrice]

\* the answers to `await axios.get`: data that passes the criteria, data
\* that does not, no data, a timeout, another error
Answers == {"valid", "rejected", "noData", "timeout", "error"}

\* validateTokenPrice up to its first await, or to its return
ValidateStart(p, mint) ==
    /\ FreeValidation(p)
    /\ LET reached == jupiterApiFailures >= MAX_FAILURES
           v == [NoValidation EXCEPT
                    !.mint = mint,
                    !.reached = reached,
                    !.open = reached
                             /\ now - lastJupiterFailureTime < CIRCUIT_BREAKER_TIMEOUT,
                    !.elapsed = reached /\ now - openedAt >= CIRCUIT_BREAKER_TIMEOUT]
       IN IF mint = SOL_MINT \/ mint = WSOL_MINT
          THEN /\ validated' = Validated([v EXCEPT !.count = jupiterApiFailures],
                                         "sol", jupiterApiFailures)
               /\ UNCHANGED <<jupiterApiFailures, lastJupiterFailureTime, validations>>
          ELSE LET check == isJupiterApiDown
                   w == [v EXCEPT !.count = check.failures]
               IN /\ jupiterApiFailures' = check.failures
                  /\ lastJupiterFailureTime' = check.last
                  /\ IF check.down
                     THEN /\ validated' = Validated(w, "skipped", check.failures)
                          /\ UNCHANGED validations
                     ELSE /\ validations' = [validations EXCEPT ![p] =
                                 [w EXCEPT !.pc = "request", !.requests = 1]]
                          /\ UNCHANGED validated
    /\ UNCHANGED <<now, openedAt>>
    /\ UNCHANGED besidesBreaker

\* from the answer to `await axios.get` to the return or to the retry delay
ValidateAnswer(p, answer) ==
    /\ validations[p].pc = "request"
    /\ LET v == validations[p]
       IN IF answer \in {"valid", "rejected", "noData"}
          THEN /\ validated' = Validated(v, answer, jupiterApiFailures)
               /\ validations' = [validations EXCEPT ![p] = NoValidation]
               /\ UNCHANGED <<jupiterApiFailures, lastJupiterFailureTime, openedAt>>
          ELSE IF v.attempt = retries
          THEN /\ jupiterApiFailures' = recordJupiterFailure.failures
               /\ lastJupiterFailureTime' = recordJupiterFailure.last
               /\ openedAt' = IF recordJupiterFailure.failures = MAX_FAILURES
                              THEN now ELSE openedAt
               /\ validated' = Validated(v, "allowed", recordJupiterFailure.failures)
               /\ validations' = [validations EXCEPT ![p] = NoValidation]
          ELSE /\ validations' = [validations EXCEPT ![p] =
                      [v EXCEPT !.pc = "delay", !.wait = retryDelay]]
               /\ UNCHANGED <<jupiterApiFailures, lastJupiterFailureTime, openedAt,
                              validated>>
    /\ UNCHANGED now
    /\ UNCHANGED besidesBreaker

\* a loop that does not count its turns: BoundedRetry must fail with it
ValidateRetryForever(p) ==
    /\ validations[p].pc = "delay"
    /\ validations' = [validations EXCEPT ![p] =
          [@ EXCEPT !.pc = "request",
                    !.requests = IF @ <= retries + 1 THEN @ + 1 ELSE @]]
    /\ UNCHANGED <<jupiterApiFailures, lastJupiterFailureTime, now, validated,
                   openedAt>>
    /\ UNCHANGED besidesBreaker

\* the retry delay ends: the next turn of the loop, up to `await axios.get`
ValidateRetry(p) ==
    /\ validations[p].pc = "delay"
    /\ validations' = [validations EXCEPT ![p] =
          [@ EXCEPT !.pc = "request", !.attempt = @ + 1, !.requests = @ + 1]]
    /\ UNCHANGED <<jupiterApiFailures, lastJupiterFailureTime, now, validated,
                   openedAt>>
    /\ UNCHANGED besidesBreaker

\* time passes
TimePasses ==
    /\ now + Tick <= MaxTicks * Tick
    /\ now' = now + Tick
    /\ UNCHANGED <<jupiterApiFailures, lastJupiterFailureTime, validations,
                   validated, openedAt>>
    /\ UNCHANGED besidesBreaker

\* calls of validateTokenPrice in flight together, as under the Promise.all
\* of getWalletPortfolio, time passing
NextBreaker ==
    \/ \E p \in Procs, mint \in Mints : ValidateStart(p, mint)
    \/ \E p \in Procs, answer \in Answers : ValidateAnswer(p, answer)
    \/ \E p \in Procs : ValidateRetry(p)
    \/ TimePasses

InitBreaker == Init /\ walletConfigured /\ balance = 1000005

SpecBreaker == InitBreaker /\ [][NextBreaker]_vars

----------------------------------------------------------------------------
(* jupiterTokens: getJupiterTokens and validateJupiterLiquidity *)

CACHE_DURATION == 300000

\* what the token list endpoint can send: no data, or one of two lists
TokenLists == {"empty", "listA", "listB"}

\* the slot a new call of one of the two functions takes
FreeFetch(p) ==
    /\ fetches[p] = NoFetch
    /\ \A q \in Procs : q < p => fetches[q] # NoFetch

\* the call f returns `value`
Fetched(f, outcome, value) ==
    [helper |-> f.helper, outcome |-> outcome, value |-> value,
     requests |-> f.requests]

\* getJupiterTokens up to its first await, or to its return from the cache
GetTokensStart(p) ==
    /\ FreeFetch(p)
    /\ LET f == [NoFetch EXCEPT !.helper = "getJupiterTokens", !.now = now]
       IN IF cachedTokens # "empty" /\ f.now - cacheTimestamp < CACHE_DURATION
          THEN /\ fetched' = Fetched(f, "cached", cachedTokens)
               /\ UNCHANGED fetches
          ELSE /\ fetches' = [fetches EXCEPT ![p] =
                      [f EXCEPT !.pc = "request", !.requests = 1, !.sent = now]]
               /\ UNCHANGED fetched
    /\ UNCHANGED <<cachedTokens, cacheTimestamp, fetchedAt>>
    /\ UNCHANGED besidesHelpers

\* a refresh that drops the cached list when its attempts have all failed:
\* CacheKept must fail with it
GetTokensAnswerForgets(p, answer) ==
    /\ fetches[p].helper = "getJupiterTokens"
    /\ fetches[p].pc = "request"
    /\ LET f == fetches[p]
       IN IF answer \in TokenLists
          THEN /\ cachedTokens' = answer
               /\ cacheTimestamp' = f.now
               /\ fetchedAt' = now
               /\ fetched' = Fetched(f, "fetched", answer)
               /\ fetches' = [fetches EXCEPT ![p] = NoFetch]
          ELSE IF f.attempt < retries
          THEN /\ fetches' = [fetches EXCEPT ![p] =
                      [f EXCEPT !.pc = "delay", !.wait = retryDelay]]
               /\ UNCHANGED <<cachedTokens, cacheTimestamp, fetchedAt, fetched>>
          ELSE /\ fetched' = Fetched(f, "failed", "empty")
               /\ fetches' = [fetches EXCEPT ![p] = NoFetch]
               /\ cachedTokens' = "empty"
               /\ UNCHANGED <<cacheTimestamp, fetchedAt>>
    /\ UNCHANGED besidesHelpers

\* getJupiterTokens from the answer to `await axios.get` to the return or to
\* the retry delay
GetTokensAnswer(p, answer) ==
    /\ fetches[p].helper = "getJupiterTokens"
    /\ fetches[p].pc = "request"
    /\ LET f == fetches[p]
       IN IF answer \in TokenLists
          THEN /\ cachedTokens' = answer
               /\ cacheTimestamp' = f.now
               /\ fetchedAt' = now
               /\ fetched' = Fetched(f, "fetched", answer)
               /\ fetches' = [fetches EXCEPT ![p] = NoFetch]
          ELSE IF f.attempt < retries
          THEN /\ fetches' = [fetches EXCEPT ![p] =
                      [f EXCEPT !.pc = "delay", !.wait = retryDelay]]
               /\ UNCHANGED <<cachedTokens, cacheTimestamp, fetchedAt, fetched>>
          ELSE /\ fetched' = Fetched(f, "failed", cachedTokens)
               /\ fetches' = [fetches EXCEPT ![p] = NoFetch]
               /\ UNCHANGED <<cachedTokens, cacheTimestamp, fetchedAt>>
    /\ UNCHANGED besidesHelpers

\* validateJupiterLiquidity up to its first await
LiquidityStart(p) ==
    /\ FreeFetch(p)
    /\ fetches' = [fetches EXCEPT ![p] =
          [NoFetch EXCEPT !.helper = "validateJupiterLiquidity",
                          !.pc = "request", !.requests = 1, !.sent = now]]
    /\ UNCHANGED <<cachedTokens, cacheTimestamp, fetchedAt, fetched>>
    /\ UNCHANGED besidesHelpers

\* the answers of the price endpoint: a price above 0, a price of 0, no
\* entry for the token, a timeout, another error
PriceAnswers == {"priced", "noPrice", "noData", "timeout", "error"}

\* validateJupiterLiquidity from the answer to `await axios.get` to the
\* return or to the retry delay
LiquidityAnswer(p, answer) ==
    /\ fetches[p].helper = "validateJupiterLiquidity"
    /\ fetches[p].pc = "request"
    /\ LET f == fetches[p]
       IN IF answer \in {"priced", "noPrice", "noData"}
          THEN /\ fetched' = Fetched(f, answer, answer = "priced")
               /\ fetches' = [fetches EXCEPT ![p] = NoFetch]
          ELSE IF f.attempt < retries
          THEN /\ fetches' = [fetches EXCEPT ![p] =
                      [f EXCEPT !.pc = "delay", !.wait = retryDelay]]
               /\ UNCHANGED fetched
          ELSE /\ fetched' = Fetched(f, answer, FALSE)
               /\ fetches' = [fetches EXCEPT ![p] = NoFetch]
    /\ UNCHANGED <<cachedTokens, cacheTimestamp, fetchedAt>>
    /\ UNCHANGED besidesHelpers

\* the retry delay of either function ends: the next turn of its loop, up to
\* `await axios.get`
FetchRetry(p) ==
    /\ fetches[p].pc = "delay"
    /\ fetches' = [fetches EXCEPT ![p] =
          [@ EXCEPT !.pc = "request", !.attempt = @ + 1, !.requests = @ + 1,
                    !.sent = now]]
    /\ UNCHANGED <<cachedTokens, cacheTimestamp, fetchedAt, fetched>>
    /\ UNCHANGED besidesHelpers

\* the three functions that retry, one call of validateTokenPrice and one of
\* the other two in flight together
NextRetry ==
    \/ \E mint \in Mints : ValidateStart(1, mint)
    \/ \E answer \in Answers : ValidateAnswer(1, answer)
    \/ ValidateRetry(1)
    \/ GetTokensStart(1)
    \/ \E answer \in TokenLists \cup {"error"} : GetTokensAnswer(1, answer)
    \/ LiquidityStart(1)
    \/ \E answer \in PriceAnswers : LiquidityAnswer(1, answer)
    \/ FetchRetry(1)

\* axios answers or gives up at its timeout, and setTimeout fires: a call
\* that waits goes on
SpecRetry ==
    /\ InitBreaker
    /\ [][NextRetry]_vars
    /\ WF_vars(\E answer \in Answers : ValidateAnswer(1, answer))
    /\ WF_vars(ValidateRetry(1))
    /\ WF_vars(\E answer \in TokenLists \cup {"error"} : GetTokensAnswer(1, answer))
    /\ WF_vars(\E answer \in PriceAnswers : LiquidityAnswer(1, answer))
    /\ WF_vars(FetchRetry(1))

\* by how much Date.now() moves in a step: while a request waits, the time
\* axios gives it; with no request waiting, the rest of the life of the cache
CacheSteps == {timeout, CACHE_DURATION - timeout}

\* the clock stops after the life of a cache and the requests of a call
MaxCacheTime == CACHE_DURATION + (retries + 1) * timeout

\* Date.now() moves on by d; a request in flight is answered, or given up by
\* axios, within `timeout` of its sending, and the retry follows the failure:
\* the delay is below the steps of this clock
CacheClock(d) ==
    /\ now + d <= MaxCacheTime
    /\ \A p \in Procs :
          /\ fetches[p].pc # "delay"
          /\ fetches[p].pc = "request" => now + d - fetches[p].sent <= timeout
    /\ d = timeout <=> \E p \in Procs : fetches[p].pc = "request"
    /\ now' = now + d
    /\ UNCHANGED <<jupiterApiFailures, lastJupiterFailureTime, validations,
                   validated, openedAt>>
    /\ UNCHANGED besidesBreaker

\* calls of getJupiterTokens in flight together, time passing
NextCache ==
    \/ \E p \in Procs : GetTokensStart(p)
    \/ \E p \in Procs, answer \in TokenLists \cup {"error"} : GetTokensAnswer(p, answer)
    \/ \E p \in Procs : FetchRetry(p)
    \/ \E d \in CacheSteps : CacheClock(d)

SpecCache == InitBreaker /\ [][NextCache]_vars

----------------------------------------------------------------------------
(* WalletService: createWallet, setPrimaryWallet and deleteWallet on table
   wallets *)

\* a table without the trigger: OnePrimary must fail with it
no_single_primary_wallet(rows, userId) == rows

\* trigger ensure_single_primary_wallet, BEFORE INSERT WHEN NEW.is_primary:
\* UPDATE wallets SET is_primary = false WHERE user_id = NEW.user_id
ensure_single_primary_wallet(rows, userId) ==
    [w \in WalletIds |->
        IF rows[w].user_id = userId THEN [rows[w] EXCEPT !.is_primary = FALSE]
        ELSE rows[w]]

\* trigger ensure_single_primary_wallet_update, BEFORE UPDATE WHEN
\* NEW.is_primary = true AND OLD.is_primary = false:
\* UPDATE wallets SET is_primary = false WHERE user_id = NEW.user_id AND id != NEW.id
ensure_single_primary_wallet_update(rows, id) ==
    [w \in WalletIds |->
        IF rows[w].user_id = rows[id].user_id /\ w # id
        THEN [rows[w] EXCEPT !.is_primary = FALSE]
        ELSE rows[w]]

\* the slot a new call of the wallet service takes
FreeWalletCall(p) ==
    /\ walletCalls[p] = NoWalletCall
    /\ \A q \in Procs : q < p => walletCalls[q] # NoWalletCall

\* createWallet up to `await db.get('SELECT * ... AND wallet_name = ?')`
CreateWalletStart(p, userId, walletName) ==
    /\ FreeWalletCall(p)
    /\ walletCalls' = [walletCalls EXCEPT ![p] =
          [NoWalletCall EXCEPT !.op = "createWallet", !.pc = "name",
                               !.userId = userId, !.walletName = walletName]]
    /\ UNCHANGED <<wallets, dbTransaction>>
    /\ UNCHANGED besidesWallets

\* the SELECT by name is answered: with a row of this name the call
\* returns 'Wallet with this name already exists'; else up to
\* `await db.get('SELECT COUNT(*) ...')`.  If it throws, the call returns.
CreateWalletName(p, answered) ==
    /\ walletCalls[p].op = "createWallet"
    /\ walletCalls[p].pc = "name"
    /\ LET c == walletCalls[p]
           existingWallet == \E w \in WalletIds :
                                /\ wallets[w].user_id = c.userId
                                /\ wallets[w].wallet_name = c.walletName
       IN walletCalls' = [walletCalls EXCEPT ![p] =
             IF answered /\ ~existingWallet THEN [@ EXCEPT !.pc = "count"]
             ELSE NoWalletCall]
    /\ UNCHANGED <<wallets, dbTransaction>>
    /\ UNCHANGED besidesWallets

\* the SELECT COUNT(*) is answered: isPrimary = walletCount?.count === 0;
\* up to `await db.run('INSERT INTO wallets ...')`.  If it throws, the
\* call returns.
CreateWalletCount(p, answered) ==
    /\ walletCalls[p].op = "createWallet"
    /\ walletCalls[p].pc = "count"
    /\ LET count == Cardinality({w \in WalletIds :
                          wallets[w].user_id = walletCalls[p].userId})
       IN walletCalls' = [walletCalls EXCEPT ![p] =
             IF answered
             THEN [@ EXCEPT !.pc = "insert", !.isPrimary = (count = 0)]
             ELSE NoWalletCall]
    /\ UNCHANGED <<wallets, dbTransaction>>
    /\ UNCHANGED besidesWallets

\* the INSERT runs, with a new id and after its trigger, or it throws; the
\* SELECT of the created row and updateWalletBalance leave user_id,
\* wallet_name and is_primary as they are, and the call returns
CreateWalletInsert(p, walletId, answered) ==
    /\ walletCalls[p].op = "createWallet"
    /\ walletCalls[p].pc = "insert"
    /\ wallets[walletId] = NoWallet
    /\ LET c == walletCalls[p]
           before == IF c.isPrimary
                     THEN ensure_single_primary_wallet(wallets, c.userId)
                     ELSE wallets
       IN wallets' = IF answered
                     THEN [before EXCEPT ![walletId] =
                             [user_id |-> c.userId, wallet_name |-> c.walletName,
                              is_primary |-> c.isPrimary,
                              asPrimary |-> c.isPrimary]]
                     ELSE wallets
    /\ walletCalls' = [walletCalls EXCEPT ![p] = NoWalletCall]
    /\ UNCHANGED dbTransaction
    /\ UNCHANGED besidesWallets

\* setPrimaryWallet up to the answer of BEGIN (db.transaction): on a
\* connection with an open transaction BEGIN throws, outside the try of
\* db.transaction, and the call returns false
SetPrimaryBegin(p, userId, walletId) ==
    /\ FreeWalletCall(p)
    /\ IF dbTransaction.open
       THEN UNCHANGED <<walletCalls, dbTransaction>>
       ELSE /\ walletCalls' = [walletCalls EXCEPT ![p] =
                  [NoWalletCall EXCEPT !.op = "setPrimaryWallet", !.pc = "clear",
                                       !.userId = userId, !.walletId = walletId]]
            /\ dbTransaction' = [open |-> TRUE, rows |-> wallets]
    /\ UNCHANGED wallets
    /\ UNCHANGED besidesWallets

\* UPDATE wallets SET is_primary = false WHERE user_id = ?, or it throws
SetPrimaryClear(p, answered) ==
    /\ walletCalls[p].op = "setPrimaryWallet"
    /\ walletCalls[p].pc = "clear"
    /\ wallets' = IF answered
                  THEN [w \in WalletIds |->
                          IF wallets[w].user_id = walletCalls[p].userId
                          THEN [wallets[w] EXCEPT !.is_primary = FALSE]
                          ELSE wallets[w]]
                  ELSE wallets
    /\ walletCalls' = [walletCalls EXCEPT ![p].pc =
                          IF answered THEN "set" ELSE "rollback"]
    /\ UNCHANGED dbTransaction
    /\ UNCHANGED besidesWallets

\* UPDATE wallets SET is_primary = true WHERE id = ? AND user_id = ?, after
\* its trigger, or it throws
SetPrimarySet(p, answered) ==
    /\ walletCalls[p].op = "setPrimaryWallet"
    /\ walletCalls[p].pc = "set"
    /\ LET c == walletCalls[p]
           matches == wallets[c.walletId].user_id = c.userId
           before == IF wallets[c.walletId].is_primary THEN wallets
                     ELSE ensure_single_primary_wallet_update(wallets, c.walletId)
       IN wallets' = IF answered /\ matches
                     THEN [before EXCEPT ![c.walletId].is_primary = TRUE]
                     ELSE wallets
    /\ walletCalls' = [walletCalls EXCEPT ![p].pc =
                          IF answered THEN "commit" ELSE "rollback"]
    /\ UNCHANGED dbTransaction
    /\ UNCHANGED besidesWallets

\* COMMIT, and the call returns true
SetPrimaryCommit(p) ==
    /\ walletCalls[p].op = "setPrimaryWallet"
    /\ walletCalls[p].pc = "commit"
    /\ dbTransaction' = NoTransaction
    /\ walletCalls' = [walletCalls EXCEPT ![p] = NoWalletCall]
    /\ UNCHANGED wallets
    /\ UNCHANGED besidesWallets

\* ROLLBACK: the rows are again what they were at BEGIN; the call returns
\* false
SetPrimaryRollback(p) ==
    /\ walletCalls[p].op = "setPrimaryWallet"
    /\ walletCalls[p].pc = "rollback"
    /\ wallets' = dbTransaction.rows
    /\ dbTransaction' = NoTransaction
    /\ walletCalls' = [walletCalls EXCEPT ![p] = NoWalletCall]
    /\ UNCHANGED besidesWallets

\* deleteWallet up to `await db.get('SELECT * ... WHERE id = ? AND user_id = ?')`
DeleteWalletStart(p, walletId, userId) ==
    /\ FreeWalletCall(p)
    /\ walletCalls' = [walletCalls EXCEPT ![p] =
          [NoWalletCall EXCEPT !.op = "deleteWallet", !.pc = "select",
                               !.userId = userId, !.walletId = walletId]]
    /\ UNCHANGED <<wallets, dbTransaction>>
    /\ UNCHANGED besidesWallets

\* the SELECT is answered: without a row of this id and user the call
\* returns false; with wallet.is_primary up to
\* `await db.get('SELECT COUNT(*) ...')`, else up to `await db.run('DELETE ...')`.
\* If it throws, the call returns false.
DeleteWalletSelect(p, answered) ==
    /\ walletCalls[p].op = "deleteWallet"
    /\ walletCalls[p].pc = "select"
    /\ LET c == walletCalls[p]
           wallet == wallets[c.walletId]
       IN walletCalls' = [walletCalls EXCEPT ![p] =
             IF ~answered \/ wallet.user_id # c.userId THEN NoWalletCall
             ELSE IF wallet.is_primary THEN [@ EXCEPT !.pc = "count"]
             ELSE [@ EXCEPT !.pc = "delete"]]
    /\ UNCHANGED <<wallets, dbTransaction>>
    /\ UNCHANGED besidesWallets

\* the SELECT COUNT(*) is answered: with walletCount.count > 1 the call
\* throws 'Cannot delete primary wallet' and returns false; else up to
\* `await db.run('DELETE ...')`.  If it throws, the call returns false.
DeleteWalletCount(p, answered) ==
    /\ walletCalls[p].op = "deleteWallet"
    /\ walletCalls[p].pc = "count"
    /\ LET count == Cardinality({w \in WalletIds :
                          wallets[w].user_id = walletCalls[p].userId})
       IN walletCalls' = [walletCalls EXCEPT ![p] =
             IF answered /\ ~(count > 1) THEN [@ EXCEPT !.pc = "delete"]
             ELSE NoWalletCall]
    /\ UNCHANGED <<wallets, dbTransaction>>
    /\ UNCHANGED besidesWallets

\* DELETE FROM wallets WHERE id = ?, or it throws; the call returns
DeleteWalletDelete(p, answered) ==
    /\ walletCalls[p].op = "deleteWallet"
    /\ walletCalls[p].pc = "delete"
    /\ wallets' = IF answered
                  THEN [wallets EXCEPT ![walletCalls[p].walletId] = NoWallet]
                  ELSE wallets
    /\ walletCalls' = [walletCalls EXCEPT ![p] = NoWalletCall]
    /\ UNCHANGED dbTransaction
    /\ UNCHANGED besidesWallets

\* the wallet service, calls in flight together, two users
NextWallets ==
    \/ \E p \in Procs, u \in Owners, n \in WalletNames : CreateWalletStart(p, u, n)
    \/ \E p \in Procs, a \in BOOLEAN : CreateWalletName(p, a)
    \/ \E p \in Procs, a \in BOOLEAN : CreateWalletCount(p, a)
    \/ \E p \in Procs, w \in WalletIds, a \in BOOLEAN : CreateWalletInsert(p, w, a)
    \/ \E p \in Procs, u \in Owners, w \in WalletIds : SetPrimaryBegin(p, u, w)
    \/ \E p \in Procs, a \in BOOLEAN : SetPrimaryClear(p, a)
    \/ \E p \in Procs, a \in BOOLEAN : SetPrimarySet(p, a)
    \/ \E p \in Procs : SetPrimaryCommit(p)
    \/ \E p \in Procs : SetPrimaryRollback(p)

SpecWallets == InitParse /\ [][NextWallets]_vars

\* the wallet service with deleteWallet, one call at a time, two users
NextWalletService ==
    \/ \E u \in Owners, n \in WalletNames : CreateWalletStart(1, u, n)
    \/ \E a \in BOOLEAN : CreateWalletName(1, a)
    \/ \E a \in BOOLEAN : CreateWalletCount(1, a)
    \/ \E w \in WalletIds, a \in BOOLEAN : CreateWalletInsert(1, w, a)
    \/ \E u \in Owners, w \in WalletIds : SetPrimaryBegin(1, u, w)
    \/ \E a \in BOOLEAN : SetPrimaryClear(1, a)
    \/ \E a \in BOOLEAN : SetPrimarySet(1, a)
    \/ SetPrimaryCommit(1)
    \/ SetPrimaryRollback(1)
    \/ \E w \in WalletIds, u \in Owners : DeleteWalletStart(1, w, u)
    \/ \E a \in BOOLEAN : DeleteWalletSelect(1, a)
    \/ \E a \in BOOLEAN : DeleteWalletCount(1, a)
    \/ \E a \in BOOLEAN : DeleteWalletDelete(1, a)

SpecWalletService == InitParse /\ [][NextWalletService]_vars

----------------------------------------------------------------------------
(* Properties *)

Pendings == {pendingTransaction, pendingSwap, pendingCrossChainSwap}

\* the ceiling of the kind a prepare tool creates
Ceiling(tool) ==
    CASE tool = "sendSolTransaction" -> TransferCeiling
      [] tool = "swapTokens" -> SwapCeiling
      [] tool = "prepareCrossChainSwap" -> CrossChainCeiling

\* C1: after successful prepares of any kinds, the only pending action is the
\* one of the latest prepare; every earlier one is gone.
\* Fails: the three kinds have a slot each, a prepare replaces only its own.
OnlyLatestPending ==
    \A pending \in Pendings : pending # NULL => pending.id = lastPrepared

\* C2: confirmTransaction submits a transfer only if a transfer was pending
\* when it was called.
\* Fails: the full form 'confirm send <amount> SOL to <address>' is executed
\* from the message alone.
SubmitsOnlyPending ==
    \A p \in Procs :
        calls[p].tool = "confirmTransaction" /\ calls[p].pc = "exec"
            => calls[p].had # 0

\* C3: confirms in flight together start at most one execution of a pending
\* swap or cross-chain swap.
\* Fails: the slot is read before the await of the execution and cleared
\* after it.
AtMostOneAttempt ==
    \A i \in DOMAIN attempts : attempts[i] <= 1

ConfirmSwapTerminal == {"executed", "failed", "noWallet", "cancelled"}

ConfirmCrossChainTerminal ==
    {"executed", "failed", "noWallet", "insufficient", "notSupported", "cancelled"}

\* C4: when confirmSwap or confirmCrossChainSwap has returned a terminal
\* outcome of a recognised confirm or cancel (success, exception, no wallet,
\* insufficient funds, unsupported source chain, cancel), nothing of its kind
\* is pending until a prepare returns.
ConfirmClearsPending ==
    /\ last.tool = "confirmSwap" /\ last.outcome \in ConfirmSwapTerminal
           => getPendingSwap = NULL
    /\ last.tool = "confirmCrossChainSwap" /\ last.outcome \in ConfirmCrossChainTerminal
           => getPendingCrossChainSwap = NULL

\* C4, its cases: a pending swap whose execution threw
ConfirmSwapFailed ==
    last.tool = "confirmSwap" /\ last.outcome = "failed" /\ last.had # 0

ConfirmTransactionTerminal ==
    {"executed", "failed", "insufficient", "tooLarge", "badAddress", "noWallet",
     "cancelled"}

\* C5: when confirmTransaction has returned a terminal outcome, the transfer
\* that was pending when it was called is pending no more.
\* Fails: the full form never touches pendingTransaction.
ConfirmTransactionClears ==
    last.tool = "confirmTransaction" /\ last.outcome \in ConfirmTransactionTerminal
        /\ last.had # 0
        => IdOf(pendingTransaction) # last.had

\* C6: a confirm called after the pending action's validity has ended never
\* reaches the execution.
\* Fails: the pending actions carry no time and no confirm looks at one.
ExpiredNeverExecutes ==
    \A p \in Procs : calls[p].pc = "exec" => ~calls[p].req.expired

\* C7: a confirm executes only a pending action its own caller prepared.
\* Fails: the slots are global, the tools know no owner.
OwnersIsolated ==
    \A p \in Procs : calls[p].pc = "exec" => calls[p].req.owner = calls[p].caller

PrepareRejections ==
    {"tooLarge", "badAddress", "noWallet", "unsupportedChain", "noDestination"}

\* C8: a prepare with an amount above the ceiling of its kind returns a
\* rejection at once, without asking the quote provider and without a
\* pending action: none in flight waits with such an amount, none that
\* returned was prepared or quoted, no pending action has such an amount.
OverCeilingRejected ==
    /\ \A p \in Procs :
          calls[p].tool \in PrepareTools /\ calls[p].req # NULL
              => calls[p].req.amount <= Ceiling(calls[p].tool)
    /\ last.tool \in PrepareTools /\ last.amount > Ceiling(last.tool)
          => last.outcome \in PrepareRejections /\ ~last.quoted
    /\ pendingTransaction # NULL => pendingTransaction.amount <= TransferCeiling
    /\ pendingSwap # NULL => pendingSwap.inputAmount <= SwapCeiling
    /\ pendingCrossChainSwap # NULL => pendingCrossChainSwap.amount <= CrossChainCeiling

\* C8, its case: a swap above 10 SOL was rejected for its size
SwapOverCeilingRejected ==
    /\ last.tool = "swapTokens"
    /\ last.amount > SwapCeiling
    /\ last.outcome = "tooLarge"

\* C9: a prepare called with a balance below amount + fee creates no pending
\* action.
\* Fails: swapTokens reads no balance.
ShortBalanceRejected ==
    last.tool \in PrepareTools /\ last.short => last.outcome # "prepared"

\* C10 as stated: every pending amount is strictly positive and strictly
\* below the ceiling of its kind.
AmountsStrictlyInside ==
    /\ pendingTransaction # NULL
          => 0 < pendingTransaction.amount /\ pendingTransaction.amount < TransferCeiling
    /\ pendingSwap # NULL
          => 0 < pendingSwap.inputAmount /\ pendingSwap.inputAmount < SwapCeiling
    /\ pendingCrossChainSwap # NULL
          => /\ 0 < pendingCrossChainSwap.amount
             /\ pendingCrossChainSwap.amount < CrossChainCeiling

\* C10: every pending amount is at most the ceiling of its kind, the ceiling
\* itself allowed, and every pending transfer amount is strictly positive.
AmountsWithinCeiling ==
    /\ pendingTransaction # NULL
          => 0 < pendingTransaction.amount /\ pendingTransaction.amount <= TransferCeiling
    /\ pendingSwap # NULL
          => 0 <= pendingSwap.inputAmount /\ pendingSwap.inputAmount <= SwapCeiling
    /\ pendingCrossChainSwap # NULL
          => /\ 0 <= pendingCrossChainSwap.amount
             /\ pendingCrossChainSwap.amount <= CrossChainCeiling

\* C10, its case: a transfer of exactly 1 SOL is pending
TransferAtCeilingPending ==
    pendingTransaction # NULL /\ pendingTransaction.amount = TransferCeiling

\* the rejections a prepare returns before it looks at the amount limit:
\* the address and the wallet (transfer), the chains and the destination
\* (cross-chain)
BeforeCeiling == {"badAddress", "noWallet", "unsupportedChain", "noDestination"}

\* C11: the limit is checked before the balance: no prepare with an amount
\* above the ceiling waits for getBalance, and one that has returned was not
\* rejected for its balance but, unless an earlier check failed, for its
\* size.
CeilingBeforeBalance ==
    /\ \A p \in Procs :
          calls[p].tool \in PrepareTools /\ calls[p].pc = "balance"
              => ~(calls[p].req.amount > Ceiling(calls[p].tool))
    /\ last.tool \in PrepareTools /\ last.amount > Ceiling(last.tool)
          => /\ last.outcome \notin {"insufficient", "balanceError", "prepared"}
             /\ last.outcome \notin BeforeCeiling => last.outcome = "tooLarge"

\* C11, its case: a transfer above the limit and above the balance was
\* rejected for its size
TransferTooLargeAndShort ==
    /\ last.tool = "sendSolTransaction"
    /\ last.amount > TransferCeiling
    /\ balance < last.amount + TransferFee
    /\ last.outcome = "tooLarge"

\* C12: an execution of confirmSwap or confirmCrossChainSwap in flight
\* works on the quote stored in the action that was pending when the confirm
\* was called, whatever the slot holds by now, and the confirm has asked the
\* quote provider nothing.
ExecutesStoredQuote ==
    \A p \in Procs :
        calls[p].tool \in {"confirmSwap", "confirmCrossChainSwap"} /\ calls[p].pc = "exec"
            => /\ calls[p].req.quote = calls[p].had
               /\ calls[p].req.id = calls[p].had
               /\ attempts[calls[p].had] >= 1
               /\ ~calls[p].quoted

\* C12, its case: a cross-chain execution is in flight and a later prepare
\* has replaced the pending action
ExecutingWhileReplaced ==
    \E p \in Procs :
        /\ calls[p].tool = "confirmCrossChainSwap"
        /\ calls[p].pc = "exec"
        /\ pendingCrossChainSwap # NULL
        /\ pendingCrossChainSwap.id # calls[p].had

ConfirmTools == {"confirmTransaction", "confirmSwap", "confirmCrossChainSwap"}

\* C13: with one call at a time, a pending action that a cancel phrase has
\* cleared is in no slot any more, and no execution is started for it
\* afterwards.
CancelledNeverExecuted ==
    /\ [](\A pending \in Pendings : pending # NULL => pending.id \notin cancelled)
    /\ [][\A k \in cancelled : attempts'[k] = attempts[k]]_vars

\* C13, its case: after a cancel of a pending action a confirm has found
\* nothing pending
ConfirmAfterCancel ==
    /\ cancelled # {}
    /\ last.tool \in ConfirmTools
    /\ last.outcome = "nothingPending"

\* C14: a cancel that arrives while the execution of the confirmed swap is
\* in flight is not answered as a cancellation.
\* Fails: the cancel branch looks at nothing; it clears the slot and answers
\* 'cancelled, no transaction was executed'.
NoCancelWhileExecuting ==
    last.tool = "confirmSwap" /\ last.outcome = "cancelled" /\ last.had # 0
        => \A p \in Procs :
              ~(/\ calls[p].tool = "confirmSwap"
                /\ calls[p].pc = "exec"
                /\ calls[p].req.id = last.had)

\* C15: a cancel phrase is answered as a cancellation only if an action of
\* the tool's kind was pending.
\* Fails: the cancel branches come before the look at the slot.
CancelNeedsPending ==
    last.tool \in ConfirmTools /\ last.outcome = "cancelled" => last.had # 0

DirectionWords == {"yes", "y", "confirm", "no", "n", "cancel"}

\* a message made of a direction keyword alone
BareDirection(message) ==
    Len(message) = 1 /\ \E d \in DirectionWords : message = <<W(d)>>

HasDirection(message) ==
    \E d \in {"confirm", "yes", "cancel", "no"} : includes(message, d)

RecheckedAtExecute ==
    /\ \A p \in Procs :
          calls[p].tool = "confirmTransaction" /\ calls[p].pc = "exec"
              => ~calls[p].short
    /\ last.tool = "confirmTransaction" /\ last.short
          => last.outcome = "insufficient"

\* C17, its case: the latest transfer was prepared, the balance dropped, and
\* its confirmation returned insufficient with nothing submitted
ConfirmAfterBalanceDrop ==
    /\ last.tool = "confirmTransaction"
    /\ last.short
    /\ last.outcome = "insufficient"
    /\ last.had # 0
    /\ last.had = lastPrepared
    /\ pendingTransaction = NULL
    /\ last.had \notin cancelled
    /\ attempts[last.had] = 0

\* C18: a call of validateTokenPrice made when the failure count has reached
\* MAX_FAILURES and the last recorded failure is less than
\* CIRCUIT_BREAKER_TIMEOUT old sends no request: it returns at once.
BreakerOpenSkips ==
    /\ \A p \in Procs : validations[p].pc # "idle" => ~validations[p].open
    /\ validated.open
          => validated.requests = 0 /\ validated.outcome \in {"skipped", "sol"}

\* C18, its case: a token's validation was skipped by the open breaker
SkippedByBreaker ==
    /\ validated.mint = "tokenMint"
    /\ validated.open
    /\ validated.outcome = "skipped"
    /\ validated.requests = 0
    /\ jupiterApiFailures >= MAX_FAILURES

SuccessResets ==
    validated.outcome = "valid" => validated.failures = 0

\* C21: a call of validateTokenPrice, getJupiterTokens or
\* validateJupiterLiquidity sends at most retries + 1 requests, waits
\* retryDelay before each retry, and returns: no call stays in flight for ever.
BoundedRetry ==
    /\ [](\A p \in Procs :
            /\ validations[p].requests <= retries + 1
            /\ fetches[p].requests <= retries + 1
            /\ validations[p].pc = "delay" => validations[p].wait = retryDelay
            /\ fetches[p].pc = "delay" => fetches[p].wait = retryDelay)
    /\ [](validated.requests <= retries + 1 /\ fetched.requests <= retries + 1)
    /\ []<>(validations[1].pc = "idle")
    /\ []<>(fetches[1].pc = "idle")

\* C21, its case: a validation of a price and one of liquidity have both
\* returned after all their attempts failed
AllAttemptsFailed ==
    /\ validated.outcome = "allowed"
    /\ validated.requests = retries + 1
    /\ fetched.helper = "validateJupiterLiquidity"
    /\ fetched.outcome \in {"timeout", "error"}
    /\ fetched.requests = retries + 1

\* C22: validateTokenPrice fails open: a call made with the breaker open, and
\* a call whose attempts all failed, report the token valid at the price
\* they were given; a token is reported invalid only on a response of the
\* provider.
FailsOpen ==
    /\ validated.open
          => validated.isValid /\ validated.validatedPrice = "jupiterPrice"
    /\ validated.outcome = "allowed"
          => /\ validated.requests = retries + 1
             /\ validated.isValid
             /\ validated.validatedPrice = "jupiterPrice"
    /\ validated.outcome # "none" /\ ~validated.isValid
          => validated.outcome \in {"rejected", "noData"} /\ validated.requests >= 1

\* C22, its case: the breaker is open and a token's validation, skipped,
\* reported it valid
ValidWhileOpen ==
    /\ validated.mint = "tokenMint"
    /\ validated.outcome = "skipped"
    /\ validated.open
    /\ validated.isValid
    /\ validated.validatedPrice = "jupiterPrice"

\* C23: a prepare whose getBalance threw is rejected for it and stores no
\* pending action; the step in which it returns leaves the three slots as
\* they were.
FailsClosed ==
    /\ [](last.lookupFailed => last.outcome = "balanceError" /\ last.made = 0)
    /\ [][\A p \in Procs :
            calls[p].pc = "balance" /\ calls'[p] = NoCall /\ last'.lookupFailed
                => UNCHANGED <<pendingTransaction, pendingSwap,
                               pendingCrossChainSwap, lastPrepared>>]_vars

\* C23, its case: the balance lookup of a cross-chain prepare failed while a
\* transfer was pending
LookupFailedInPrepare ==
    /\ last.tool = "prepareCrossChainSwap"
    /\ last.lookupFailed
    /\ last.outcome = "balanceError"
    /\ pendingCrossChainSwap = NULL
    /\ pendingTransaction # NULL

\* C24: with one call at a time, a prepare whose command no pattern matches
\* returns in the step it begins: it has asked no service, it has stored nothing, it leaves the
\* slots as they were; a prepare that waits for a service has a parsed command.
FailsFast ==
    /\ [](\A p \in Procs : calls[p].tool \in PrepareTools => calls[p].req # NULL)
    /\ [](last.tool \in PrepareTools /\ last.amount = -1
            => /\ last.outcome = "invalid"
               /\ ~last.external /\ ~last.quoted /\ last.made = 0)
    /\ [][(\/ \E i \in Unparsed.sendSolTransaction : SendSolStart(1, "u1", i)
           \/ \E i \in Unparsed.swapTokens, f \in BOOLEAN : SwapStart(1, "u1", i, f)
           \/ \E i \in Unparsed.prepareCrossChainSwap, d \in Destinations,
                 f \in BOOLEAN : PrepareCrossChainStart(1, "u1", i, d, f))
            => /\ calls' = calls
               /\ last'.outcome = "invalid"
               /\ ~last'.external
               /\ UNCHANGED <<pendingTransaction, pendingSwap,
                              pendingCrossChainSwap, lastPrepared>>]_vars

\* C24, its case: with a swap pending, a cross-chain prepare was given a
\* command that no pattern matches
UnparsedCrossChainPrepare ==
    /\ last.tool = "prepareCrossChainSwap"
    /\ last.outcome = "invalid"
    /\ last.amount = -1
    /\ ~last.external
    /\ pendingSwap # NULL

\* C25: simple confirmations of one pending transfer, in flight together,
\* submit it at most once: the confirmation that read the slot emptied it in
\* the same step, so no other call holds the same transfer and the slot no
\* longer holds it.
TakenOnce ==
    /\ \A i \in DOMAIN attempts : attempts[i] < 2
    /\ \A p \in Procs :
          calls[p].tool = "confirmTransaction" /\ calls[p].req # NULL
              /\ calls[p].req.id # 0
          => /\ IdOf(pendingTransaction) # calls[p].req.id
             /\ \A q \in Procs \ {p} :
                   calls[q].tool = "confirmTransaction" /\ calls[q].req # NULL
                       => calls[q].req.id # calls[p].req.id

\* C25, its case: while a simple confirmation is submitting the pending
\* transfer, a second simple confirmation has found nothing pending
SecondConfirmFoundNothing ==
    /\ last.tool = "confirmTransaction" /\ last.outcome = "nothingPending"
    /\ \E p \in Procs :
          /\ calls[p].tool = "confirmTransaction" /\ calls[p].pc = "exec"
          /\ calls[p].req.id # 0

\* C26: no failure of an execution returns the text of the thrown error as
\* what follows the fixed prefix of its message.
\* Fails: a thrown error whose text has none of the substrings the catch
\* looks for is appended to the prefix as it is.
ErrorsClassified ==
    last.outcome = "failed" /\ last.error # <<>>
        => SubSeq(last.message, 2, Len(last.message)) # last.error

\* C27: whatever calls of createWallet and setPrimaryWallet have run, and
\* however they interleaved, no user has two wallets with is_primary = true.
OnePrimary ==
    \A u \in Owners :
        Cardinality({w \in WalletIds :
                        wallets[w].user_id = u /\ wallets[w].is_primary}) <= 1

\* C27, its case: two calls of createWallet both counted no wallet and both
\* inserted theirs as primary
BothInsertedAsPrimary ==
    \E u \in Owners :
        Cardinality({w \in WalletIds :
                        wallets[w].user_id = u /\ wallets[w].asPrimary}) > 1

\* C28: a message with the cancel keyword and the subject keyword of the
\* tool ("swap"; for the cross-chain tool also "cross" and "chain", or
\* "crosschain") is not classified as confirm by the parser of confirmSwap
\* or of confirmCrossChainSwap, whatever else the message contains.
\* Fails: both parsers test for confirm first, so "confirm cancel swap" is
\* a confirmation.
CancelNeverConfirms ==
    /\ heard.tool = "confirmSwap"
           /\ includes(heard.message, "cancel") /\ includes(heard.message, "swap")
       => heard.verdict # "confirm"
    /\ heard.tool = "confirmCrossChainSwap"
           /\ includes(heard.message, "cancel")
           /\ \/ includes(heard.message, "swap")
              \/ includes(heard.message, "crosschain")
              \/ includes(heard.message, "cross") /\ includes(heard.message, "chain")
       => heard.verdict # "confirm"

\* C29: the return of an execution clears only what was executed: a swap
\* (or cross-chain swap) prepared while another one was executing is still
\* pending after that execution has returned.
\* Fails: clearPendingSwap and clearPendingCrossChainSwap, called after the
\* execution, empty the slot whatever it holds by then.
ClearsOnlyExecuted ==
    [][\A p \in Procs :
          calls[p].pc = "exec" /\ calls'[p] = NoCall
          => /\ calls[p].tool = "confirmSwap"
                    /\ pendingSwap # NULL /\ pendingSwap.id # calls[p].req.id
                => pendingSwap' = pendingSwap
             /\ calls[p].tool = "confirmCrossChainSwap"
                    /\ pendingCrossChainSwap # NULL
                    /\ pendingCrossChainSwap.id # calls[p].req.id
                => pendingCrossChainSwap' = pendingCrossChainSwap]_vars

\* C30: the balance check of prepareCrossChainSwap and the final check of
\* confirmCrossChainSwap agree: when the final check is made on a balance
\* that passes the check of the prepare for the pending swap, the call does
\* not return for insufficient funds.
\* Fails: the prepare requires amount + fees only of a swap from SOL and the
\* fees alone of any other token; the final check requires amount + fees of
\* every swap.
BalanceChecksAgree ==
    [][\A p \in Procs :
          /\ calls[p].tool = "confirmCrossChainSwap" /\ calls[p].pc = "balance"
          /\ balance >= PrepareRequired(calls[p].req)
          /\ calls'[p] = NoCall
          => last'.outcome # "insufficient"]_vars

\* C31: a prepare that returns anything but success (the command was not
\* understood, the amount is over the ceiling, no wallet, the address, the
\* chain or the destination is refused, the balance is short or unknown, a
\* token is not found, the quote provider throws or has no route) has stored
\* nothing, and the step in which it returns leaves the pending transfer,
\* swap and cross-chain swap as they were.
FailedPrepareKeeps ==
    /\ [](last.tool \in PrepareTools /\ last.outcome # "prepared" => last.made = 0)
    /\ [][last' # last /\ last'.tool \in PrepareTools /\ last'.outcome # "prepared"
            => UNCHANGED <<pendingTransaction, pendingSwap,
                           pendingCrossChainSwap, lastPrepared>>]_vars

\* C31, its case: the quote provider threw in a swap prepare while a swap
\* was pending
QuoteThrewWithPending ==
    /\ last.tool = "swapTokens" /\ last.outcome = "quoteError"
    /\ pendingSwap # NULL

\* C32: a confirm tool that classifies the message as invalid returns in the
\* step it begins, without having asked any service: the three slots, the
\* executions started and the calls in flight are what they were, so a
\* later confirmation finds the same pending action.
InvalidChangesNothing ==
    /\ [](last.tool \in ConfirmTools /\ last.outcome = "invalid" => ~last.external)
    /\ [][last' # last /\ last'.tool \in ConfirmTools /\ last'.outcome = "invalid"
            => /\ calls' = calls
               /\ UNCHANGED <<pendingTransaction, pendingSwap, pendingCrossChainSwap,
                              attempts, cancelled, lastPrepared>>]_vars

\* C32, its case: after an invalid message to confirmSwap, a confirmation
\* is executing the swap that was pending when the invalid message came
ExecutingAfterInvalid ==
    /\ last.tool = "confirmSwap" /\ last.outcome = "invalid" /\ last.had # 0
    /\ calls[1].tool = "confirmSwap" /\ calls[1].pc = "exec"
    /\ calls[1].req.id = last.had

\* C33: confirmTransaction submits no transfer above the ceiling of 1 SOL,
\* whether the transfer is the pending one (simple confirmation) or the one
\* the message names (full form): a call that has passed the checks, waiting
\* for the balance or for the submission, has an amount of at most 1 SOL,
\* and a full-form confirmation above it is refused for its size.
NothingOverCeilingSubmitted ==
    /\ \A p \in Procs :
          calls[p].tool = "confirmTransaction" /\ calls[p].pc \in {"balance", "exec"}
              => calls[p].req.amount <= TransferCeiling
    /\ last.tool = "confirmTransaction" /\ last.amount > TransferCeiling
          => last.outcome \in {"tooLarge", "badAddress", "noWallet"}

\* C33, its case: a full-form confirmation of exactly 1 SOL is being
\* submitted, and a full-form confirmation of more has been refused
FullFormAtAndOverCeiling ==
    /\ last.tool = "confirmTransaction" /\ last.outcome = "tooLarge"
    /\ last.had = 0
    /\ \E p \in Procs :
          /\ calls[p].tool = "confirmTransaction" /\ calls[p].pc = "exec"
          /\ calls[p].req.id = 0 /\ calls[p].req.amount = TransferCeiling

\* C34: the failure count of the circuit breaker is never above
\* MAX_FAILURES.
\* Fails: a call looks at the breaker once, before its requests, and
\* recordJupiterFailure adds one whatever the count is; calls that passed
\* the look while the count was below MAX_FAILURES take it beyond.
FailuresWithinThreshold ==
    jupiterApiFailures <= MAX_FAILURES

\* C35: a cross-chain swap whose source chain is not Solana is never handed
\* to the swap SDK: no confirm is past its start with such a swap, and a
\* confirm that found such a swap pending returns the not-supported failure
\* without a call to the chain or the SDK and leaves nothing pending.
OnlyFromSolanaSubmitted ==
    /\ [](\A p \in Procs :
             calls[p].tool = "confirmCrossChainSwap" /\ calls[p].req # NULL
                 => calls[p].req.fromChain = "solana")
    /\ [][/\ last' # last
          /\ last'.tool = "confirmCrossChainSwap"
          /\ last'.outcome \notin {"invalid", "cancelled"}
          /\ pendingCrossChainSwap # NULL
          /\ pendingCrossChainSwap.fromChain # "solana"
          /\ calls' = calls
          => /\ last'.outcome = "notSupported"
             /\ ~last'.external
             /\ pendingCrossChainSwap' = NULL]_vars

\* a swap from Ethereum was prepared and its confirm has returned
NotSupportedReturned ==
    /\ last.tool = "confirmCrossChainSwap"
    /\ last.outcome = "notSupported"
    /\ last.had # 0
    /\ pendingCrossChainSwap = NULL

\* C36: with one call of the wallet service at a time and none in flight,
\* every user who has a wallet has exactly one wallet with is_primary = true.
\* Fails: setPrimaryWallet clears the primary of all the user's wallets and
\* then sets the one of the given id only if it is the user's; with another
\* id it commits and returns true with no primary left.
AlwaysAPrimary ==
    (\A p \in Procs : walletCalls[p] = NoWalletCall)
        => \A u \in Owners :
              (\E w \in WalletIds : wallets[w].user_id = u)
                  => Cardinality({w \in WalletIds :
                                    wallets[w].user_id = u /\ wallets[w].is_primary}) = 1

\* C37 as stated: while a list that is not empty and that arrived less than
\* CACHE_DURATION ago is cached, a call of getJupiterTokens sends no request.
\* Fails: cacheTimestamp is the Date.now() the fetching call read when it
\* began, not the time its answer arrived; the cache ends CACHE_DURATION
\* after the call began.
FreshListServed ==
    [][\A p \in Procs :
          GetTokensStart(p) /\ cachedTokens # "empty"
              /\ now - fetchedAt < CACHE_DURATION
          => fetches' = fetches /\ fetched'.outcome = "cached"]_vars

\* C37: while a list that is not empty is cached and the call that fetched
\* it began less than CACHE_DURATION ago, a call of getJupiterTokens returns
\* that list and sends no request; the cached list and its timestamp change
\* only in the step in which a request is answered with a list, so a refresh
\* whose attempts all fail leaves both as they are, and it returns the
\* cached list: the list of the last answered request, empty if there was
\* none.
CacheKept ==
    /\ [](fetched.outcome = "cached" => fetched.requests = 0 /\ fetched.value # "empty")
    /\ [](fetched.outcome = "failed" /\ fetched.helper = "getJupiterTokens"
             => fetched.requests = retries + 1)
    /\ [][\A p \in Procs :
            GetTokensStart(p) /\ cachedTokens # "empty"
                /\ now - cacheTimestamp < CACHE_DURATION
            => /\ fetches' = fetches
               /\ fetched'.outcome = "cached"
               /\ fetched'.value = cachedTokens
               /\ UNCHANGED <<cachedTokens, cacheTimestamp>>]_vars
    /\ [][cachedTokens' # cachedTokens \/ cacheTimestamp' # cacheTimestamp
            => /\ fetched'.outcome = "fetched"
               /\ fetched'.value = cachedTokens'
               /\ \E p \in Procs : fetches[p].pc = "request" /\ fetches'[p] = NoFetch]_vars
    /\ [][\A p \in Procs :
            /\ fetches[p].pc = "request" /\ fetches[p].attempt = retries
            /\ fetches'[p] = NoFetch /\ fetched'.outcome # "fetched"
            => /\ fetched'.outcome = "failed"
               /\ fetched'.value = cachedTokens
               /\ UNCHANGED <<cachedTokens, cacheTimestamp>>]_vars

\* C37, its case: the cache had ended and the refresh, all its attempts
\* failed, returned the list still cached
FailedRefreshReturnedCached ==
    /\ fetched.helper = "getJupiterTokens"
    /\ fetched.outcome = "failed"
    /\ fetched.requests = retries + 1
    /\ fetched.value # "empty"
    /\ fetched.value = cachedTokens
    /\ now - cacheTimestamp >= CACHE_DURATION

====
